---- MODULE Spec2Model ----
(***************************************************************************)
(* Model of the vibeSafe-mcp secret scanner (src/scanners/secretScanner.ts) *)
(* Text is modelled as sequences of one-character strings, so that the      *)
(* regular expressions of the scanner are evaluated character by character. *)
(***************************************************************************)
EXTENDS Integers, Sequences, FiniteSets, TLC

\* ------------------------------------------------------------------------
\* Characters and character classes of the regular expressions
\* ------------------------------------------------------------------------
UpperSeq == <<"A", "B", "C", "D", "E", "F", "G", "H", "I", "J", "K", "L", "M", "N", "O", "P", "Q", "R", "S", "T", "U", "V", "W", "X", "Y", "Z">>
LowerSeq == <<"a", "b", "c", "d", "e", "f", "g", "h", "i", "j", "k", "l", "m", "n", "o", "p", "q", "r", "s", "t", "u", "v", "w", "x", "y", "z">>
DigitSeq == <<"0", "1", "2", "3", "4", "5", "6", "7", "8", "9">>

Range(s) == {s[i] : i \in 1..Len(s)}

Upper == Range(UpperSeq)
Lower == Range(LowerSeq)
Digit == Range(DigitSeq)

\* [a-zA-Z0-9\/+=] of ENTROPY_CANDIDATE_REGEX and of the AWS secret rule
Base64Class == Lower \cup Upper \cup Digit \cup {"/", "+", "="}
\* [0-9A-Z] of the AWS Access Key ID rule
AkiaClass == Digit \cup Upper
\* [a-zA-Z0-9\-_] of the Generic API Key rule
KeyClass == Lower \cup Upper \cup Digit \cup {"-", "_"}
\* \s of the Generic API Key rule (the white space that can occur in a line)
SpaceClass == {" ", "\t", "\r"}
\* ['"] of the Generic API Key rule
QuoteClass == {"'", "\""}

\* ------------------------------------------------------------------------
\* Entropy (calculateShannonEntropy)
\* ------------------------------------------------------------------------
\* Math.log2(k) for k = 1..128 in millionths of a bit, rounded down
LOG2_SCALE == 1000000
Log2Table ==
   <<
      0, 1000000, 1584962, 2000000, 2321928, 2584962, 2807354, 3000000,
      3169925, 3321928, 3459431, 3584962, 3700439, 3807354, 3906890, 4000000,
      4087462, 4169925, 4247927, 4321928, 4392317, 4459431, 4523561, 4584962,
      4643856, 4700439, 4754887, 4807354, 4857980, 4906890, 4954196, 5000000,
      5044394, 5087462, 5129283, 5169925, 5209453, 5247927, 5285402, 5321928,
      5357552, 5392317, 5426264, 5459431, 5491853, 5523561, 5554588, 5584962,
      5614709, 5643856, 5672425, 5700439, 5727920, 5754887, 5781359, 5807354,
      5832890, 5857980, 5882643, 5906890, 5930737, 5954196, 5977279, 6000000,
      6022367, 6044394, 6066089, 6087462, 6108524, 6129283, 6149747, 6169925,
      6189824, 6209453, 6228818, 6247927, 6266786, 6285402, 6303780, 6321928,
      6339850, 6357552, 6375039, 6392317, 6409390, 6426264, 6442943, 6459431,
      6475733, 6491853, 6507794, 6523561, 6539158, 6554588, 6569855, 6584962,
      6599912, 6614709, 6629356, 6643856, 6658211, 6672425, 6686500, 6700439,
      6714245, 6727920, 6741466, 6754887, 6768184, 6781359, 6794415, 6807354,
      6820178, 6832890, 6845490, 6857980, 6870364, 6882643, 6894817, 6906890,
      6918863, 6930737, 6942514, 6954196, 6965784, 6977279, 6988684, 7000000
   >>

Log2Micro(k) == Log2Table[k]

\* charCounts: the number of occurrences of every distinct character
CharCounts(str) ==
  [c \in Range(str) |-> Cardinality({i \in 1..Len(str) : str[i] = c})]

RECURSIVE SumOver(_, _)
SumOver(f, S) ==
  IF S = {} THEN 0
  ELSE LET c == CHOOSE x \in S : TRUE IN f[c] + SumOver(f, S \ {c})

\* a variant with add-one smoothing: probability = count / (len + 1)
calculateShannonEntropy_Smoothed(str) ==
  IF Len(str) = 0 THEN 0
  ELSE LET charCounts == CharCounts(str)
           len == Len(str) + 1
           weighted == [c \in DOMAIN charCounts |->
                          charCounts[c] * (Log2Micro(len) - Log2Micro(charCounts[c]))]
       IN SumOver(weighted, DOMAIN charCounts) \div len

\* entropy = - sum p*log2(p) = (n*log2(n) - sum c*log2(c)) / n, in millionths
calculateShannonEntropy(str) ==
  IF Len(str) = 0 THEN 0
  ELSE LET charCounts == CharCounts(str)
           len == Len(str)
           weighted == [c \in DOMAIN charCounts |-> charCounts[c] * Log2Micro(charCounts[c])]
       IN (len * Log2Micro(len) - SumOver(weighted, DOMAIN charCounts)) \div len

MIN_ENTROPY_THRESHOLD == 4
MIN_STRING_LENGTH_FOR_ENTROPY == 20

\* ------------------------------------------------------------------------
\* Regular expressions (secretPatterns, ENTROPY_CANDIDATE_REGEX)
\* ------------------------------------------------------------------------
\* the character at 1-based position i, "" past either end of the string
At(str, i) == IF i \in 1..Len(str) THEN str[i] ELSE ""

\* the length of the longest run of characters of class starting at s
RECURSIVE RunLen(_, _, _)
RunLen(str, s, class) ==
  IF s > Len(str) \/ str[s] \notin class THEN 0
  ELSE 1 + RunLen(str, s + 1, class)

\* /AKIA[0-9A-Z]{16}/ : the length of the match starting at s, 0 if none
MatchAwsAccessKeyId(str, s) ==
  IF /\ At(str, s) = "A" /\ At(str, s + 1) = "K"
     /\ At(str, s + 2) = "I" /\ At(str, s + 3) = "A"
     /\ \A k \in 4..19 : At(str, s + k) \in AkiaClass
  THEN 20 ELSE 0

\* the pattern without its lookbehind and lookahead: /[A-Za-z0-9\/+=]{40}/
MatchAwsSecretAccessKey_Unbounded(str, s) ==
  IF RunLen(str, s, Base64Class) >= 40 THEN 40 ELSE 0

\* /(?<![A-Za-z0-9\/+=])[A-Za-z0-9\/+=]{40}(?![A-Za-z0-9\/+=])/
MatchAwsSecretAccessKey(str, s) ==
  IF /\ At(str, s - 1) \notin Base64Class
     /\ RunLen(str, s, Base64Class) >= 40
     /\ At(str, s + 40) \notin Base64Class
  THEN 40 ELSE 0

\* /[aA][pP][iI]_?[kK][eE][yY]\s*[:=]\s*['"]?[a-zA-Z0-9\-_]{16,}['"]?/
\* matched part by part; s is the start of the match, the last parameter
\* of each part the position it starts at
\* [a-zA-Z0-9\-_]{16,}['"]? : the run is from v up to e
GenericEnd(str, s, v, e) ==
  IF e - v >= 16
  THEN (IF At(str, e) \in QuoteClass THEN e + 1 ELSE e) - s
  ELSE 0

\* ['"]?[a-zA-Z0-9\-_]{16,} from q
GenericValue(str, s, v) == GenericEnd(str, s, v, v + RunLen(str, v, KeyClass))
GenericQuote(str, s, q) ==
  GenericValue(str, s, IF At(str, q) \in QuoteClass THEN q + 1 ELSE q)

\* [:=]\s* at sep
GenericSep(str, s, sep) ==
  IF At(str, sep) \in {":", "="}
  THEN GenericQuote(str, s, sep + 1 + RunLen(str, sep + 1, SpaceClass))
  ELSE 0

\* [kK][eE][yY]\s* at k
GenericKey(str, s, k) ==
  IF /\ At(str, k) \in {"k", "K"}
     /\ At(str, k + 1) \in {"e", "E"}
     /\ At(str, k + 2) \in {"y", "Y"}
  THEN GenericSep(str, s, k + 3 + RunLen(str, k + 3, SpaceClass))
  ELSE 0

\* the pattern with a lower-case key token only: /api_?key.../
MatchGenericApiKey_LowerCase(str, s) ==
  IF /\ At(str, s) = "a" /\ At(str, s + 1) = "p" /\ At(str, s + 2) = "i"
     /\ At(str, IF At(str, s + 3) = "_" THEN s + 4 ELSE s + 3) = "k"
  THEN GenericKey(str, s, IF At(str, s + 3) = "_" THEN s + 4 ELSE s + 3)
  ELSE 0

\* [aA][pP][iI]_? at s
MatchGenericApiKey(str, s) ==
  IF /\ At(str, s) \in {"a", "A"}
     /\ At(str, s + 1) \in {"p", "P"}
     /\ At(str, s + 2) \in {"i", "I"}
  THEN GenericKey(str, s, IF At(str, s + 3) = "_" THEN s + 4 ELSE s + 3)
  ELSE 0

\* {20,} : a run of n characters is a match when n >= 20
AtLeast20(n) == IF n >= 20 THEN n ELSE 0

\* /[a-zA-Z0-9\/+=]{20,}/ : greedy, the whole run from s when long enough
MatchEntropyCandidate(str, s) == AtLeast20(RunLen(str, s, Base64Class))

MatchLen(pattern, str, s) ==
  CASE pattern = "AwsAccessKeyId"     -> MatchAwsAccessKeyId(str, s)
    [] pattern = "AwsSecretAccessKey" -> MatchAwsSecretAccessKey(str, s)
    [] pattern = "GenericApiKey"      -> MatchGenericApiKey(str, s)
    [] pattern = "EntropyCandidate"   -> MatchEntropyCandidate(str, s)

ENTROPY_CANDIDATE_REGEX == "EntropyCandidate"

secretPatterns ==
  << [type |-> "AWS Access Key ID",     pattern |-> "AwsAccessKeyId",     severity |-> "High"],
     [type |-> "AWS Secret Access Key", pattern |-> "AwsSecretAccessKey", severity |-> "High"],
     [type |-> "Generic API Key",       pattern |-> "GenericApiKey",      severity |-> "Medium"] >>

\* the first 1-based position >= s where pattern matches, 0 if there is none
RECURSIVE FirstMatch(_, _, _)
FirstMatch(pattern, str, s) ==
  IF s > Len(str) THEN 0
  ELSE IF MatchLen(pattern, str, s) > 0 THEN s
  ELSE FirstMatch(pattern, str, s + 1)

\* a variant that resumes the search one character after the match start
ExecMatch_Overlap(str, s, len) ==
  [found |-> TRUE, index |-> s - 1,
   value |-> SubSeq(str, s, s + len - 1),
   lastIndex |-> s]

\* the match object of a match of len characters at 1-based position s
ExecMatch(str, s, len) ==
  [found |-> TRUE, index |-> s - 1,
   value |-> SubSeq(str, s, s + len - 1),
   lastIndex |-> s - 1 + len]

\* the result of exec when the first match is at s (0: there is none)
ExecResult(pattern, str, s) ==
  IF s = 0
  THEN [found |-> FALSE, lastIndex |-> 0]
  ELSE ExecMatch(str, s, MatchLen(pattern, str, s))

\* pattern.exec(str) of a global regular expression whose lastIndex is
\* lastIndex (0-based): the match and the new lastIndex, or null and 0
RegExpExec(pattern, str, lastIndex) ==
  ExecResult(pattern, str, FirstMatch(pattern, str, lastIndex + 1))

\* ------------------------------------------------------------------------
\* scanFileForSecrets
\* ------------------------------------------------------------------------
\* content.split('\n')
RECURSIVE SplitFrom(_, _, _)
SplitFrom(content, i, cur) ==
  IF i > Len(content) THEN <<cur>>
  ELSE IF content[i] = "\n" THEN <<cur>> \o SplitFrom(content, i + 1, <<>>)
  ELSE SplitFrom(content, i + 1, Append(cur, content[i]))

SplitLines(content) == SplitFrom(content, 1, <<>>)

\* a variant anchored at the start of the name: /^\.env($|\.)/
IsEnvFileName_Anchored(name) ==
  /\ At(name, 1) = "." /\ At(name, 2) = "e"
  /\ At(name, 3) = "n" /\ At(name, 4) = "v"
  /\ (Len(name) = 4 \/ At(name, 5) = ".")

\* /\.env($|\.)/.test(path.basename(filePath))
IsEnvFileName(name) ==
  \E s \in 1..Len(name) :
    /\ At(name, s) = "." /\ At(name, s + 1) = "e"
    /\ At(name, s + 2) = "n" /\ At(name, s + 3) = "v"
    /\ (s + 3 = Len(name) \/ At(name, s + 4) = ".")

\* the while loop over pattern.exec(lineContent) of one rule; match is
\* what exec returned for the iteration
RECURSIVE PatternLoopOn(_, _, _, _, _, _)
PatternLoopOn(rule, filePath, lineContent, lineNumber, isEnvFile, match) ==
  IF ~ match.found THEN <<>>
  ELSE << [file     |-> filePath,
           line     |-> lineNumber,
           type     |-> IF isEnvFile THEN "Local Environment Secret" ELSE rule.type,
           value    |-> match.value,
           severity |-> IF isEnvFile THEN "Info" ELSE rule.severity] >>
       \o PatternLoopOn(rule, filePath, lineContent, lineNumber, isEnvFile,
                        RegExpExec(rule.pattern, lineContent, match.lastIndex))

\* pattern.lastIndex = lastIndex, then the while loop
PatternLoop(rule, filePath, lineContent, lineNumber, isEnvFile, lastIndex) ==
  PatternLoopOn(rule, filePath, lineContent, lineNumber, isEnvFile,
                RegExpExec(rule.pattern, lineContent, lastIndex))

\* secretPatterns.forEach(...) from rule number r on, for one line
RECURSIVE RulesFrom(_, _, _, _, _)
RulesFrom(r, filePath, lineContent, lineNumber, isEnvFile) ==
  IF r > Len(secretPatterns) THEN <<>>
  ELSE PatternLoop(secretPatterns[r], filePath, lineContent, lineNumber, isEnvFile, 0)
       \o RulesFrom(r + 1, filePath, lineContent, lineNumber, isEnvFile)

\* a variant that looks at the findings of the entropy pass only
AlreadyFound_EntropyOnly(findings, lineNumber, candidate) ==
  \E k \in 1..Len(findings) :
    /\ findings[k].type = "High Entropy String"
    /\ findings[k].line = lineNumber /\ findings[k].value = candidate

\* a variant that also skips a candidate that lies inside the value of a
\* finding of the line, or that holds such a value
AlreadyFound_Overlap(findings, lineNumber, candidate) ==
  \E k \in 1..Len(findings) :
    /\ findings[k].line = lineNumber
    /\ \/ \E s \in 1..(Len(findings[k].value) - Len(candidate) + 1) :
            SubSeq(findings[k].value, s, s + Len(candidate) - 1) = candidate
       \/ \E s \in 1..(Len(candidate) - Len(findings[k].value) + 1) :
            SubSeq(candidate, s, s + Len(findings[k].value) - 1) = findings[k].value

\* a variant that compares f.line with the 0-based index of the line
AlreadyFound_IndexLine(findings, lineNumber, candidate) ==
  \E k \in 1..Len(findings) :
    findings[k].line = lineNumber - 1 /\ findings[k].value = candidate

\* findings.some(f => f.line === lineNumber && f.value === candidate)
AlreadyFound(findings, lineNumber, candidate) ==
  \E k \in 1..Len(findings) :
    findings[k].line = lineNumber /\ findings[k].value = candidate

\* the finding the entropy pass pushes for a candidate
EntropyFinding(filePath, lineNumber, candidate) ==
  [file     |-> filePath,
   line     |-> lineNumber,
   type     |-> "High Entropy String",
   value    |-> candidate,
   severity |-> "Low"]

\* a variant that wants the entropy strictly above the threshold
EntropyCandidate_Strict(findings, filePath, lineNumber, candidate) ==
  IF AlreadyFound(findings, lineNumber, candidate) THEN findings
  ELSE IF /\ Len(candidate) >= MIN_STRING_LENGTH_FOR_ENTROPY
          /\ calculateShannonEntropy(candidate) > MIN_ENTROPY_THRESHOLD * LOG2_SCALE
  THEN Append(findings, EntropyFinding(filePath, lineNumber, candidate))
  ELSE findings

\* the body of the entropy loop for one candidate: the findings after it
EntropyCandidate(findings, filePath, lineNumber, candidate) ==
  IF AlreadyFound(findings, lineNumber, candidate) THEN findings
  ELSE IF /\ Len(candidate) >= MIN_STRING_LENGTH_FOR_ENTROPY
          /\ calculateShannonEntropy(candidate) >= MIN_ENTROPY_THRESHOLD * LOG2_SCALE
  THEN Append(findings, EntropyFinding(filePath, lineNumber, candidate))
  ELSE findings

\* the while loop over ENTROPY_CANDIDATE_REGEX.exec(lineContent);
\* entropyMatch is what exec returned for the iteration
RECURSIVE EntropyLoopOn(_, _, _, _, _)
EntropyLoopOn(findings, filePath, lineContent, lineNumber, entropyMatch) ==
  IF ~ entropyMatch.found THEN findings
  ELSE EntropyLoopOn(EntropyCandidate(findings, filePath, lineNumber, entropyMatch.value),
                     filePath, lineContent, lineNumber,
                     RegExpExec(ENTROPY_CANDIDATE_REGEX, lineContent, entropyMatch.lastIndex))

\* ENTROPY_CANDIDATE_REGEX.lastIndex = lastIndex, then the while loop
EntropyLoop(findings, filePath, lineContent, lineNumber, lastIndex) ==
  EntropyLoopOn(findings, filePath, lineContent, lineNumber,
                RegExpExec(ENTROPY_CANDIDATE_REGEX, lineContent, lastIndex))

\* a variant that runs the entropy pass on environment files too
ScanLine_EntropyAlways(findings, filePath, lineContent, lineNumber, isEnvFile) ==
  EntropyLoop(findings \o RulesFrom(1, filePath, lineContent, lineNumber, isEnvFile),
              filePath, lineContent, lineNumber, 0)

\* a variant that runs the entropy pass of a line before its rules
EntropyPass_First(findings, filePath, lineContent, lineNumber, isEnvFile) ==
  IF ~ isEnvFile
  THEN LET n == Len(findings) - Len(RulesFrom(1, filePath, lineContent, lineNumber, isEnvFile))
       IN EntropyLoop(SubSeq(findings, 1, n), filePath, lineContent, lineNumber, 0)
          \o SubSeq(findings, n + 1, Len(findings))
  ELSE findings

\* if (!isEnvFile) { the entropy pass }
EntropyPass(findings, filePath, lineContent, lineNumber, isEnvFile) ==
  IF ~ isEnvFile
  THEN EntropyLoop(findings, filePath, lineContent, lineNumber, 0)
  ELSE findings

\* the body of lines.forEach for one line: the rules, then the entropy pass
ScanLine(findings, filePath, lineContent, lineNumber, isEnvFile) ==
  EntropyPass(findings \o RulesFrom(1, filePath, lineContent, lineNumber, isEnvFile),
              filePath, lineContent, lineNumber, isEnvFile)

\* a variant that numbers the lines as forEach counts them, from 0
RECURSIVE ScanLinesFrom_ZeroBased(_, _, _, _, _)
ScanLinesFrom_ZeroBased(findings, filePath, lines, index, isEnvFile) ==
  IF index >= Len(lines) THEN findings
  ELSE ScanLinesFrom_ZeroBased(ScanLine(findings, filePath, lines[index + 1], index, isEnvFile),
                               filePath, lines, index + 1, isEnvFile)

\* lines.forEach(...) from line number index + 1 on
RECURSIVE ScanLinesFrom(_, _, _, _, _)
ScanLinesFrom(findings, filePath, lines, index, isEnvFile) ==
  IF index >= Len(lines) THEN findings
  ELSE ScanLinesFrom(ScanLine(findings, filePath, lines[index + 1], index + 1, isEnvFile),
                     filePath, lines, index + 1, isEnvFile)

\* path.basename(filePath) of a path held as its sequence of components
Basename(filePath) == filePath[Len(filePath)]

\* p names a symbolic link whose target is in the filesystem
IsLink(files, p) ==
  /\ p \in DOMAIN files
  /\ files[p].kind = "symlink"
  /\ "target" \in DOMAIN files[p]

\* the lengths of the prefixes of the path p that are such links
LinkPrefixes(files, p) == {k \in 1..Len(p) : IsLink(files, SubSeq(p, 1, k))}

\* The path the operating system looks up for p: the first link on the way
\* is replaced by its target, and so on. fs.stat, fs.readdir and fs.readFile
\* follow links; the Dirent type of an entry is that of the entry itself.
RECURSIVE Resolve(_, _)
ResolveAt(files, p, k) ==
  Resolve(files, files[SubSeq(p, 1, k)].target \o SubSeq(p, k + 1, Len(p)))
Resolve(files, p) ==
  IF LinkPrefixes(files, p) = {} THEN p
  ELSE ResolveAt(files, p, CHOOSE k \in LinkPrefixes(files, p) :
                             \A j \in LinkPrefixes(files, p) : k <= j)

\* fs.readFile of a path without links
ReadFileAt(files, filePath) ==
  IF filePath \notin DOMAIN files THEN [err |-> "ENOENT"]
  ELSE IF files[filePath].kind = "dir" THEN [err |-> "EISDIR"]
  ELSE IF files[filePath].err # "none" THEN [err |-> files[filePath].err]
  ELSE [err |-> "none", content |-> files[filePath].content]

\* fs.readFile(filePath, 'utf-8') on the filesystem files: the content, or
\* the error code it rejects with
ReadFile(files, filePath) == ReadFileAt(files, Resolve(files, filePath))

\* a variant whose catch block throws the error again after logging it
ScanFileCatch_Rethrow(filePath, findings, code) ==
  [threw |-> TRUE, code |-> code, findings |-> findings,
   diag  |-> << [level |-> "error", code |-> code, path |-> filePath] >>]

\* the catch block of scanFileForSecrets: a diagnostic, nothing is rethrown
ScanFileCatch(filePath, findings, code) ==
  [threw |-> FALSE, findings |-> findings,
   diag  |-> << [level |-> IF code \in {"ENOENT", "EACCES"} THEN "warn" ELSE "error",
                 code |-> code, path |-> filePath] >>]

\* scanFileForSecrets(filePath), given what fs.readFile(filePath) yields:
\* a read that fails throws before any line is scanned and is caught
scanFileForSecrets(filePath, read) ==
  IF read.err # "none" THEN ScanFileCatch(filePath, <<>>, read.err)
  ELSE [threw |-> FALSE,
        findings |-> ScanLinesFrom(<<>>, filePath, SplitLines(read.content), 0,
                                   IsEnvFileName(Basename(filePath))),
        diag |-> <<>>]

\* the module-level regular expression objects: those of secretPatterns and
\* ENTROPY_CANDIDATE_REGEX
RegexObjects ==
  {secretPatterns[r].pattern : r \in 1..Len(secretPatterns)} \cup {ENTROPY_CANDIDATE_REGEX}

\* lastIndex of a regular expression when its while loop over exec ends;
\* match is what exec returned for the iteration
RECURSIVE LoopEnd(_, _, _)
LoopEnd(pattern, str, match) ==
  IF ~ match.found THEN match.lastIndex
  ELSE LoopEnd(pattern, str, RegExpExec(pattern, str, match.lastIndex))

\* lastIndex of every object after the loops of one line; the entropy pass
\* does not touch its object in an environment file
RegexStateOn(li, lineContent, isEnvFile) ==
  [p \in DOMAIN li |->
     IF p = ENTROPY_CANDIDATE_REGEX /\ isEnvFile THEN li[p]
     ELSE LoopEnd(p, lineContent, RegExpExec(p, lineContent, 0))]

\* lastIndex of every object when scanFileForSecrets(filePath) returns: the
\* loops of the last line were the last to run; a failed read runs none
RegexStateAfter(li, filePath, read) ==
  IF read.err # "none" THEN li
  ELSE RegexStateOn(li, SplitLines(read.content)[Len(SplitLines(read.content))],
                    IsEnvFileName(Basename(filePath)))

\* ------------------------------------------------------------------------
\* walkDirectory
\* ------------------------------------------------------------------------
S_node_modules == <<"n", "o", "d", "e", "_", "m", "o", "d", "u", "l", "e", "s">>
S_git          == <<".", "g", "i", "t">>

\* does pat occur in str at 1-based position s
OccursAt(pat, str, s) ==
  /\ s + Len(pat) - 1 <= Len(str)
  /\ \A k \in 1..Len(pat) : str[s + k - 1] = pat[k]

Contains(str, pat) == \E s \in 1..Len(str) : OccursAt(pat, str, s)

\* path.join: the components of a path separated by "/"
RECURSIVE PathStr(_)
PathStr(p) ==
  IF Len(p) = 0 THEN <<>>
  ELSE IF Len(p) = 1 THEN p[1]
  ELSE p[1] \o <<"/">> \o PathStr(Tail(p))

\* ignorePatterns.some(pattern => pattern.test(fullPath)) for the patterns
\* [/node_modules\//, /\.git\//] that scanPathForSecrets passes down
IgnoredByPattern(fullPath) ==
  \/ Contains(PathStr(fullPath), S_node_modules \o <<"/">>)
  \/ Contains(PathStr(fullPath), S_git \o <<"/">>)

\* entry.name === 'node_modules' || entry.name === '.git'
SimpleIgnore(name) == name = S_node_modules \/ name = S_git

\* a variant that knows .git only
SkipEntry_GitOnly(fullPath, name, kind) ==
  \/ Contains(PathStr(fullPath), S_git \o <<"/">>)
  \/ kind = "dir" /\ name = S_git

\* the two continue statements of the for loop of walkDirectory: an entry of
\* any type whose full path an ignore pattern matches, a directory whose
\* name is ignored
SkipEntry(fullPath, name, kind) ==
  \/ IgnoredByPattern(fullPath)
  \/ kind = "dir" /\ SimpleIgnore(name)

\* fs.readdir of a path without links
ReaddirAt(files, dirPath) ==
  IF dirPath \notin DOMAIN files THEN [err |-> "ENOENT"]
  ELSE IF files[dirPath].kind # "dir" THEN [err |-> "ENOTDIR"]
  ELSE IF files[dirPath].err # "none" THEN [err |-> files[dirPath].err]
  ELSE [err |-> "none", entries |-> files[dirPath].entries]

\* fs.readdir(dirPath, { withFileTypes: true }): the entries in listing
\* order, or the error code it rejects with
Readdir(files, dirPath) == ReaddirAt(files, Resolve(files, dirPath))

\* the type of the node at a path without links
KindAt(files, p) == IF p \in DOMAIN files THEN files[p].kind ELSE "other"

\* a variant that reports the type of what a link points to, as fs.stat does
EntryKind_FollowLinks(files, fullPath) == KindAt(files, Resolve(files, fullPath))

\* Dirent type of an entry (a symbolic link is neither a file nor a directory)
EntryKind(files, fullPath) ==
  KindAt(files, Append(Resolve(files, SubSeq(fullPath, 1, Len(fullPath) - 1)),
                       fullPath[Len(fullPath)]))

\* a call of walkDirectory(dirPath) waiting for its fs.readdir
NewFrame(dirPath) ==
  [dirPath |-> dirPath, entries |-> <<>>, k |-> 0, filesToScan |-> <<>>]

\* The for loop of the walkDirectory call on top of the stack, run from its
\* entry number k + 1 until a nested walkDirectory call waits for fs.readdir
\* (the stack grows) or the bottom call returns (the stack is empty and ret
\* is its list). A call that returns hands its list to the caller's concat.
RECURSIVE WalkRun(_, _)
WalkRun(files, stack) ==
  LET f == stack[Len(stack)]
      rest == SubSeq(stack, 1, Len(stack) - 1)
  IN IF f.k >= Len(f.entries)
     THEN IF Len(rest) = 0
          THEN [stack |-> <<>>, ret |-> f.filesToScan]
          ELSE LET parent == rest[Len(rest)]
               IN WalkRun(files,
                    [rest EXCEPT ![Len(rest)] =
                       [parent EXCEPT !.filesToScan = parent.filesToScan \o f.filesToScan,
                                      !.k = parent.k + 1]])
     ELSE LET name == f.entries[f.k + 1]
              fullPath == Append(f.dirPath, name)
              kind == EntryKind(files, fullPath)
              skip == [stack EXCEPT ![Len(stack)] = [f EXCEPT !.k = f.k + 1]]
          IN IF SkipEntry(fullPath, name, kind) THEN WalkRun(files, skip)
             ELSE IF kind = "dir"
             THEN [stack |-> Append(stack, NewFrame(fullPath)), ret |-> <<>>]
             ELSE IF kind = "file"
             THEN WalkRun(files,
                    [stack EXCEPT ![Len(stack)] =
                       [f EXCEPT !.k = f.k + 1,
                                 !.filesToScan = Append(f.filesToScan, fullPath)]])
             ELSE WalkRun(files, skip)

\* the catch block of walkDirectory: the call on top of the stack logs the
\* error and returns the list it has, its caller goes on with the next entry
WalkCatch(files, stack) ==
  LET f == stack[Len(stack)]
  IN WalkRun(files, [stack EXCEPT ![Len(stack)] = [f EXCEPT !.entries = <<>>, !.k = 0]])

\* the call on top of the stack resumes after await fs.readdir(dirPath)
WalkResume(files, stack) ==
  LET f == stack[Len(stack)]
      rd == Readdir(files, f.dirPath)
  IN IF rd.err # "none" THEN WalkCatch(files, stack)
     ELSE WalkRun(files, [stack EXCEPT ![Len(stack)] = [f EXCEPT !.entries = rd.entries, !.k = 0]])

WalkDiag(files, stack) ==
  LET f == stack[Len(stack)]
      rd == Readdir(files, f.dirPath)
  IN IF rd.err # "none"
     THEN << [level |-> "error", code |-> rd.err, path |-> f.dirPath] >>
     ELSE <<>>

\* ------------------------------------------------------------------------
\* Names, file contents and filesystems the scans run on
\* ------------------------------------------------------------------------
N_proj == <<"p", "r", "o", "j">>
N_src == <<"s", "r", "c">>
N_lib == <<"l", "i", "b">>
N_my_node_modules == <<"m", "y", "_", "n", "o", "d", "e", "_", "m", "o", "d", "u", "l", "e", "s">>
N_x_git == <<"x", ".", "g", "i", "t">>
N_a_txt == <<"a", ".", "t", "x", "t">>
N_env == <<".", "e", "n", "v">>
N_c_js == <<"c", ".", "j", "s">>
N_f_pem == <<"f", ".", "p", "e", "m">>
N_env_local == <<".", "e", "n", "v", ".", "l", "o", "c", "a", "l">>
N_config_env == <<"c", "o", "n", "f", "i", "g", ".", "e", "n", "v">>
N_envrc == <<".", "e", "n", "v", "r", "c">>
N_env_plain == <<"e", "n", "v">>

\* pieces of text that file contents are built from
T_AKIA  == <<"A", "K", "I", "A">>
T_KEY20 == <<"A", "K", "I", "A", "0", "1", "2", "3", "4", "5", "6", "7", "8", "9", "B", "C", "D", "E", "F", "G">>
T_U16   == <<"0", "1", "2", "3", "4", "5", "6", "7", "8", "9", "B", "C", "D", "E", "F", "G">>
T_S20   == <<"a", "b", "c", "d", "e", "f", "g", "h", "i", "j", "k", "l", "m", "n", "o", "p", "q", "r", "s", "t">>
T_LOW20 == <<"a", "a", "a", "a", "a", "a", "a", "a", "a", "a", "a", "a", "a", "a", "a", "a", "a", "a", "a", "a">>
T_R19   == <<"A", "B", "C", "D", "E", "F", "G", "H", "I", "J", "K", "L", "M", "N", "O", "P", "Q", "R", "S">>
T_X     == <<"x">>
T_SP    == <<" ">>
T_NL    == <<"\n">>
T_KEQ   == <<"a", "p", "i", "_", "k", "e", "y", "=">>

Pieces == {T_AKIA, T_KEY20, T_U16, T_S20, T_LOW20, T_R19, T_X, T_SP, T_NL, T_KEQ}

\* the largest number of pieces in the content of a file
MaxPieces == 3

RECURSIVE Texts(_)
Texts(n) ==
  IF n = 0 THEN {<<>>}
  ELSE Texts(n - 1) \cup {t \o p : t \in Texts(n - 1), p \in Pieces}

FileNames == {N_env, N_env_local, N_config_env, N_a_txt, N_envrc, N_env_plain}

FileNode(content, err) ==
  [kind |-> "file", err |-> err, entries |-> <<>>, content |-> content]
DirNode(kind, entries, err) ==
  [kind |-> kind, err |-> err, entries |-> entries, content |-> <<>>]
\* a symbolic link to the path target
LinkNode(target) ==
  [kind |-> "symlink", err |-> "none", entries |-> <<>>, content |-> <<>>, target |-> target]

ReadErrs == {"none", "ENOENT", "EACCES"}
DirErrs  == {"none", "EACCES"}
OuterDirNames == {N_src, S_node_modules, S_git, N_my_node_modules, N_x_git}
InnerDirNames == {N_lib, S_node_modules, S_git}

Base == <<N_proj>>

ContentA == T_S20 \o T_NL \o T_KEY20
ContentB == T_KEQ \o T_U16
ContentC == T_S20 \o T_S20
ContentF == T_U16 \o T_U16 \o T_SP \o T_KEQ \o T_U16

\* the directory tree  proj/{a.txt, .env, <dn>/{c.js, <en>/f.pem}}
Tree(order, dn, dk, derr, en, eerr, ea, eb, ec, ef) ==
  LET D == <<N_proj, dn>>
      E == <<N_proj, dn, en>>
  IN (Base :> DirNode("dir", IF order = 1 THEN <<N_a_txt, dn, N_env>>
                                          ELSE <<dn, N_env, N_a_txt>>, "none"))
     @@ (<<N_proj, N_a_txt>> :> FileNode(ContentA, ea))
     @@ (<<N_proj, N_env>> :> FileNode(ContentB, eb))
     @@ (D :> DirNode(dk, IF order = 1 THEN <<N_c_js, en>> ELSE <<en, N_c_js>>, derr))
     @@ (Append(D, N_c_js) :> FileNode(ContentC, ec))
     @@ (E :> DirNode("dir", <<N_f_pem>>, eerr))
     @@ (Append(E, N_f_pem) :> FileNode(ContentF, ef))

Trees ==
  { Tree(order, dn, dk, derr, en, eerr, ea, eb, ec, ef) :
      order \in 1..2, dn \in OuterDirNames, dk \in {"dir", "symlink"}, derr \in DirErrs,
      en \in InnerDirNames, eerr \in DirErrs,
      ea \in ReadErrs, eb \in ReadErrs, ec \in ReadErrs, ef \in ReadErrs }

\* the base path is missing, not accessible, a socket, a file, an empty directory
Singles ==
  { <<>> } \cup
  { Base :> n : n \in { DirNode("other", <<>>, "none"), DirNode("dir", <<>>, "EACCES"),
                        DirNode("dir", <<>>, "none"), DirNode("other", <<>>, "EACCES"),
                        FileNode(ContentA, "none"), FileNode(ContentA, "EACCES") } }

FileSystems == Trees \cup Singles

\* fs.stat of a path without links
StatAt(files, p) ==
  IF p \notin DOMAIN files THEN [err |-> "ENOENT"]
  ELSE IF files[p].kind = "other" /\ files[p].err # "none" THEN [err |-> files[p].err]
  ELSE [err |-> "none", kind |-> files[p].kind]

\* fs.stat(basePath)
Stat(files, p) == StatAt(files, Resolve(files, p))

\* ------------------------------------------------------------------------
\* scanPathForSecrets: one invocation per element of active
\* ------------------------------------------------------------------------
VARIABLES
  fs,           \* the filesystem: path -> node
  active,       \* the invocations of scanPathForSecrets
  basePath,     \* the argument of each invocation
  pc,           \* the await each invocation is at: "stat", "walk", "scan", or "done"
  stack,        \* the walkDirectory calls of each invocation, innermost last
  filesToScan,  \* the list walkDirectory (or the single-file case) produced
  next,         \* how many files of filesToScan have been scanned
  allFindings,  \* the accumulator of each invocation
  outcome,      \* "pending", "returned" or "threw"
  result,       \* the sequence an invocation returned
  log,          \* console.warn / console.error diagnostics, in order
  lastIndex,    \* lastIndex of the module-level regular expression objects
  readdirs,     \* the directories each invocation has awaited fs.readdir of
  report,       \* the text secretScanToolHandler returned for each invocation
  entropyInput, \* the argument of a call of calculateShannonEntropy on its own
  entropyOutput, \* <<what that call returned>>, <<>> before it returns
  siPc,         \* the await a call of secureInstallToolHandler is at, or "idle", "done"
  siInputs,     \* its inputs: packageName and yes
  siMetadata,   \* what fetchPackageMetadata resolved with
  siWarnings,   \* the warnings of the heuristic checks
  siOutput,     \* outputText, a sequence of sentences
  siReturn,     \* "pending", "returned" or "threw"
  siTrace       \* the fetches, the checks and the npm install of the call, in order

scanVars == <<fs, active, basePath, pc, stack, filesToScan, next, allFindings, outcome, result, log,
              lastIndex, readdirs>>
entropyVars == <<entropyInput, entropyOutput>>
installVars == <<siPc, siInputs, siMetadata, siWarnings, siOutput, siReturn, siTrace>>
vars == <<scanVars, report, entropyVars, installVars>>

\* no call of secureInstallToolHandler is made
InstallIdle ==
  /\ siPc = "idle"
  /\ siInputs = << >> /\ siMetadata = << >> /\ siWarnings = <<>>
  /\ siOutput = <<>> /\ siReturn = "pending" /\ siTrace = <<>>

\* no call of calculateShannonEntropy on its own is made
EntropyIdle == entropyInput = <<>> /\ entropyOutput = <<>>

\* no scan is made
ScanIdle ==
  /\ fs = << >>
  /\ active = {}
  /\ basePath = << >> /\ pc = << >> /\ stack = << >> /\ filesToScan = << >>
  /\ next = << >> /\ allFindings = << >> /\ outcome = << >> /\ result = << >>
  /\ log = <<>>
  /\ lastIndex = [p \in RegexObjects |-> 0]
  /\ readdirs = << >>
  /\ report = << >>

\* a variant whose catch block throws the error again after logging it
ScanPathCatch_Rethrow(code, p) ==
  [outcome |-> "threw", result |-> <<>>,
   diag |-> << [level |-> "error", code |-> code, path |-> p] >>]

\* the catch block of scanPathForSecrets: log and return []
ScanPathCatch(code, p) ==
  [outcome |-> "returned", result |-> <<>>,
   diag |-> << [level |-> IF code = "ENOENT" THEN "warn" ELSE "error",
                code |-> code, path |-> p] >>]

\* a variant that puts the new findings in front
ConcatFindings_Prepend(all, findings) == findings \o all

\* allFindings = allFindings.concat(findings)
ConcatFindings(all, findings) == all \o findings

\* the invocations S start, invocation i with the argument paths[i]
InitScansAt(S, paths) ==
  /\ active = S
  /\ basePath = paths
  /\ pc = [i \in S |-> "stat"]
  /\ stack = [i \in S |-> <<>>]
  /\ filesToScan = [i \in S |-> <<>>]
  /\ next = [i \in S |-> 0]
  /\ allFindings = [i \in S |-> <<>>]
  /\ outcome = [i \in S |-> "pending"]
  /\ result = [i \in S |-> <<>>]
  /\ log = <<>>
  /\ lastIndex = [p \in RegexObjects |-> 0]
  /\ readdirs = [i \in S |-> <<>>]
  /\ report = [i \in S |-> <<>>]

InitScans(S, p) == InitScansAt(S, [i \in S |-> p])

Init ==
  /\ fs \in FileSystems
  /\ InitScans({1}, Base)
  /\ EntropyIdle
  /\ InstallIdle

\* the invocation returns value (normally or from its catch block)
Finish(i, value, diag) ==
  /\ pc' = [pc EXCEPT ![i] = "done"]
  /\ outcome' = [outcome EXCEPT ![i] = "returned"]
  /\ result' = [result EXCEPT ![i] = value]
  /\ log' = log \o diag

\* await fs.stat(basePath) resumes
StatBase(i) ==
  /\ pc[i] = "stat"
  /\ LET st == Stat(fs, basePath[i])
     IN IF st.err # "none"
        THEN LET c == ScanPathCatch(st.err, basePath[i])
             IN /\ pc' = [pc EXCEPT ![i] = "done"]
                /\ outcome' = [outcome EXCEPT ![i] = c.outcome]
                /\ result' = [result EXCEPT ![i] = c.result]
                /\ log' = log \o c.diag
                /\ UNCHANGED <<stack, filesToScan>>
        ELSE IF st.kind = "file"
        THEN /\ filesToScan' = [filesToScan EXCEPT ![i] = <<basePath[i]>>]
             /\ pc' = [pc EXCEPT ![i] = "scan"]
             /\ UNCHANGED <<stack, outcome, result, log>>
        ELSE IF st.kind = "dir"
        THEN /\ stack' = [stack EXCEPT ![i] = <<NewFrame(basePath[i])>>]
             /\ pc' = [pc EXCEPT ![i] = "walk"]
             /\ UNCHANGED <<filesToScan, outcome, result, log>>
        ELSE /\ Finish(i, <<>>, << [level |-> "warn", code |-> "NOTFILEORDIR", path |-> basePath[i]] >>)
             /\ UNCHANGED <<stack, filesToScan>>
  /\ UNCHANGED <<fs, active, basePath, next, allFindings, lastIndex, readdirs>>

\* await fs.readdir(dirPath) of the innermost walkDirectory call resumes
WalkStep(i) ==
  /\ pc[i] = "walk"
  /\ LET w == WalkResume(fs, stack[i])
         diag == WalkDiag(fs, stack[i])
     IN /\ stack' = [stack EXCEPT ![i] = w.stack]
        /\ IF Len(w.stack) > 0
           THEN /\ log' = log \o diag
                /\ UNCHANGED <<pc, filesToScan, outcome, result>>
           ELSE /\ filesToScan' = [filesToScan EXCEPT ![i] = w.ret]
                /\ IF Len(w.ret) = 0
                   THEN Finish(i, allFindings[i], diag)
                   ELSE /\ pc' = [pc EXCEPT ![i] = "scan"]
                        /\ log' = log \o diag
                        /\ UNCHANGED <<outcome, result>>
  /\ readdirs' = [readdirs EXCEPT ![i] = Append(@, stack[i][Len(stack[i])].dirPath)]
  /\ UNCHANGED <<fs, active, basePath, next, allFindings, lastIndex>>

\* a variant whose accumulator is one module-level array: the findings of
\* a file are added to the accumulator of every invocation
ScanResume_SharedAccumulator(i, r) ==
  IF r.threw
  THEN /\ pc' = [pc EXCEPT ![i] = "done"]
       /\ outcome' = [outcome EXCEPT ![i] = ScanPathCatch(r.code, basePath[i]).outcome]
       /\ result' = [result EXCEPT ![i] = ScanPathCatch(r.code, basePath[i]).result]
       /\ log' = log \o r.diag \o ScanPathCatch(r.code, basePath[i]).diag
       /\ UNCHANGED <<next, allFindings>>
  ELSE /\ allFindings' = [j \in active |-> ConcatFindings(allFindings[j], r.findings)]
       /\ next' = [next EXCEPT ![i] = next[i] + 1]
       /\ IF next[i] + 1 = Len(filesToScan[i])
          THEN Finish(i, allFindings'[i], r.diag)
          ELSE /\ log' = log \o r.diag
               /\ UNCHANGED <<pc, outcome, result>>

\* the for loop of scanPathForSecrets goes on with r, what
\* scanFileForSecrets returned (or threw) for file number next + 1
ScanResume(i, r) ==
  IF r.threw
  THEN /\ pc' = [pc EXCEPT ![i] = "done"]
       /\ outcome' = [outcome EXCEPT ![i] = ScanPathCatch(r.code, basePath[i]).outcome]
       /\ result' = [result EXCEPT ![i] = ScanPathCatch(r.code, basePath[i]).result]
       /\ log' = log \o r.diag \o ScanPathCatch(r.code, basePath[i]).diag
       /\ UNCHANGED <<next, allFindings>>
  ELSE /\ allFindings' = [allFindings EXCEPT ![i] = ConcatFindings(allFindings[i], r.findings)]
       /\ next' = [next EXCEPT ![i] = next[i] + 1]
       /\ IF next[i] + 1 = Len(filesToScan[i])
          THEN Finish(i, allFindings'[i], r.diag)
          ELSE /\ log' = log \o r.diag
               /\ UNCHANGED <<pc, outcome, result>>

\* await scanFileForSecrets(filePath) of the for loop resumes
ScanStep(i) ==
  /\ pc[i] = "scan"
  /\ ScanResume(i, scanFileForSecrets(filesToScan[i][next[i] + 1],
                                      ReadFile(fs, filesToScan[i][next[i] + 1])))
  /\ lastIndex' = RegexStateAfter(lastIndex, filesToScan[i][next[i] + 1],
                                  ReadFile(fs, filesToScan[i][next[i] + 1]))
  /\ UNCHANGED <<fs, active, basePath, stack, filesToScan, readdirs>>

DoStat == (\E i \in active : StatBase(i)) /\ UNCHANGED <<report, entropyVars, installVars>>
DoWalk == (\E i \in active : WalkStep(i)) /\ UNCHANGED <<report, entropyVars, installVars>>
DoScan == (\E i \in active : ScanStep(i)) /\ UNCHANGED <<report, entropyVars, installVars>>

Next == DoStat \/ DoWalk \/ DoScan

Spec == Init /\ [][Next]_vars

\* the file names tried with every content; the others get the short ones
RichNames == {N_a_txt, N_config_env}
ShortPieces == 2

\* scans of a single file
InitFile ==
  \E name \in FileNames :
  \E content \in Texts(IF name \in RichNames THEN MaxPieces ELSE ShortPieces) :
    /\ fs = (<<N_proj, name>> :> FileNode(content, "none"))
    /\ InitScans({1}, <<N_proj, name>>)
    /\ EntropyIdle
    /\ InstallIdle

NextFile == DoStat \/ DoScan

SpecFile == InitFile /\ [][NextFile]_vars

\* ------------------------------------------------------------------------
\* Lines of the form <key token><space><separator><space><quote><value><quote>
\* ------------------------------------------------------------------------
K_api == {<<"a", "p", "i">>, <<"A", "P", "I">>, <<"A", "p", "i">>}
K_key == {<<"k", "e", "y">>, <<"K", "E", "Y">>, <<"K", "e", "y">>}
K_joiners == {<<>>, <<"_">>, <<"-">>}
K_spaces == {<<>>, <<" ", "\t">>}
K_separators == {<<":">>, <<"=">>, <<";">>}
K_quotes == {<<>>, <<"'">>, <<"\"">>}
K_values == {SubSeq(T_U16, 1, 15), T_U16, <<"a", "-", "b", "_">> \o T_U16}

\* what can follow the key token
KeyTails ==
  {ws \o sep \o ws2 \o q \o val \o q :
     ws \in K_spaces, sep \in K_separators, ws2 \in K_spaces,
     q \in K_quotes, val \in K_values}

KeyTokens == {a \o j \o k : a \in K_api, j \in K_joiners, k \in K_key}

\* scans of a file of one such line
InitKey ==
  \E tok \in KeyTokens :
  \E tail \in KeyTails :
    /\ fs = (<<N_proj, N_a_txt>> :> FileNode(tok \o tail, "none"))
    /\ InitScans({1}, <<N_proj, N_a_txt>>)
    /\ EntropyIdle
    /\ InstallIdle

SpecKey == InitKey /\ [][NextFile]_vars

\* ------------------------------------------------------------------------
\* calculateShannonEntropy called on its own
\* ------------------------------------------------------------------------
EntropyAlphabet == {"a", "B", "/"}

\* the largest length of the strings over EntropyAlphabet
MaxEntropyLen == 4
\* the largest length of the strings of one repeated character
MaxRepeat == 100

RECURSIVE Words(_)
Words(n) ==
  IF n = 0 THEN {<<>>}
  ELSE Words(n - 1) \cup {Append(w, c) : w \in Words(n - 1), c \in EntropyAlphabet}

Repeat(c, n) == [k \in 1..n |-> c]

EntropyInputs ==
  Words(MaxEntropyLen) \cup {Repeat(c, n) : c \in {"a", "="}, n \in 1..MaxRepeat}

InitEntropy ==
  /\ ScanIdle
  /\ entropyInput \in EntropyInputs
  /\ entropyOutput = <<>>
  /\ InstallIdle

\* calculateShannonEntropy(entropyInput) returns
CallEntropy ==
  /\ entropyOutput = <<>>
  /\ entropyOutput' = <<calculateShannonEntropy(entropyInput)>>
  /\ UNCHANGED <<entropyInput, scanVars, report, installVars>>

NextEntropy == CallEntropy

SpecEntropy == InitEntropy /\ [][NextEntropy]_vars

\* ------------------------------------------------------------------------
\* Two invocations of scanPathForSecrets in flight at once
\* ------------------------------------------------------------------------
ConcFileSystems ==
  { Tree(order, N_src, "dir", "none", en, "none", ea, "none", ec, "none") :
      order \in 1..2, en \in {N_lib, S_git},
      ea \in {"none", "EACCES"}, ec \in {"none", "ENOENT"} }

ConcBases == {Base, <<N_proj, N_src>>, <<N_proj, N_a_txt>>}

InitConc ==
  /\ fs \in ConcFileSystems
  /\ \E paths \in [{1, 2} -> ConcBases] : InitScansAt({1, 2}, paths)
  /\ EntropyIdle
  /\ InstallIdle

SpecConc == InitConc /\ [][Next]_vars

\* ------------------------------------------------------------------------
\* secretScanToolHandler and formatSecretFindings (tools/secretScanTool.ts)
\* ------------------------------------------------------------------------
\* the white heavy check mark the success message starts with, one character
CheckMark == "U+2705"
\* the grave accent, one character
Backtick == "U+0060"

L_NoSecrets == <<" ", "N", "o", " ", "s", "e", "c", "r", "e", "t", "s", " ", "f", "o", "u", "n", "d", " ", "i", "n", " ">>
L_Heading == <<"#", "#", " ", "S", "e", "c", "r", "e", "t", "s", " ", "f", "o", "u", "n", "d", " ", "i", "n", " ">>
L_HeadingEnd == <<":", "\\", "n", "\\", "n">>
L_File == <<"*", " ", " ", " ", "*", "*", "F", "i", "l", "e", ":", "*", "*", " ", Backtick>>
L_Line == <<Backtick, " ", "(", "L", "i", "n", "e", ":", " ">>
L_LineEnd == <<")", "\\", "n">>
L_Type == <<" ", " ", " ", " ", "*", " ", " ", " ", "*", "*", "T", "y", "p", "e", ":", "*", "*", " ">>
L_Severity == <<" ", " ", " ", " ", "*", " ", " ", " ", "*", "*", "S", "e", "v", "e", "r", "i", "t", "y", ":", "*", "*", " ">>
L_Value == <<" ", " ", " ", " ", "*", " ", " ", " ", "*", "*", "V", "a", "l", "u", "e", ":", "*", "*", " ", Backtick, Backtick, Backtick>>
L_ValueEnd == <<Backtick, Backtick, Backtick, "\\", "n", "\\", "n">>
L_FieldEnd == <<"\\", "n">>
L_Error == <<"E", "r", "r", "o", "r", " ", "d", "u", "r", "i", "n", "g", " ", "s", "e", "c", "r", "e", "t", " ", "s", "c", "a", "n", " ", "f", "o", "r", " ">>

\* the characters of the type and severity strings of a finding
CharsOf(word) ==
  CASE word = "AWS Access Key ID" -> <<"A", "W", "S", " ", "A", "c", "c", "e", "s", "s", " ", "K", "e", "y", " ", "I", "D">>
    [] word = "AWS Secret Access Key" -> <<"A", "W", "S", " ", "S", "e", "c", "r", "e", "t", " ", "A", "c", "c", "e", "s", "s", " ", "K", "e", "y">>
    [] word = "Generic API Key" -> <<"G", "e", "n", "e", "r", "i", "c", " ", "A", "P", "I", " ", "K", "e", "y">>
    [] word = "High Entropy String" -> <<"H", "i", "g", "h", " ", "E", "n", "t", "r", "o", "p", "y", " ", "S", "t", "r", "i", "n", "g">>
    [] word = "Local Environment Secret" -> <<"L", "o", "c", "a", "l", " ", "E", "n", "v", "i", "r", "o", "n", "m", "e", "n", "t", " ", "S", "e", "c", "r", "e", "t">>
    [] word = "High" -> <<"H", "i", "g", "h">>
    [] word = "Medium" -> <<"M", "e", "d", "i", "u", "m">>
    [] word = "Low" -> <<"L", "o", "w">>
    [] word = "Info" -> <<"I", "n", "f", "o">>

\* ${finding.line}: the decimal digits of a number
RECURSIVE NumStr(_)
NumStr(n) ==
  IF n < 10 THEN <<DigitSeq[n + 1]>>
  ELSE NumStr(n \div 10) \o <<DigitSeq[(n % 10) + 1]>>

\* a variant that shows the first four characters of the value only
FindingBlock_Redacted(finding) ==
  L_File \o PathStr(finding.file) \o L_Line \o NumStr(finding.line) \o L_LineEnd
  \o L_Type \o CharsOf(finding.type) \o L_FieldEnd
  \o L_Severity \o CharsOf(finding.severity) \o L_FieldEnd
  \o L_Value \o SubSeq(finding.value, 1, 4) \o <<"*", "*", "*", "*">> \o L_ValueEnd

\* the four lines the forEach callback adds for one finding
FindingBlock(finding) ==
  L_File \o PathStr(finding.file) \o L_Line \o NumStr(finding.line) \o L_LineEnd
  \o L_Type \o CharsOf(finding.type) \o L_FieldEnd
  \o L_Severity \o CharsOf(finding.severity) \o L_FieldEnd
  \o L_Value \o finding.value \o L_ValueEnd

\* findings.forEach(...) from finding number k on
RECURSIVE FindingBlocks(_, _)
FindingBlocks(findings, k) ==
  IF k > Len(findings) THEN <<>>
  ELSE FindingBlock(findings[k]) \o FindingBlocks(findings, k + 1)

formatSecretFindings(findings, targetPath) ==
  IF Len(findings) = 0
  THEN <<CheckMark>> \o L_NoSecrets \o PathStr(targetPath) \o <<".">>
  ELSE L_Heading \o PathStr(targetPath) \o L_HeadingEnd \o FindingBlocks(findings, 1)

\* outputText of secretScanToolHandler when scanPathForSecrets has settled
HandlerText(targetPath, scanOutcome, findings) ==
  IF scanOutcome = "threw"
  THEN L_Error \o PathStr(targetPath) \o <<":", " ">>
  ELSE formatSecretFindings(findings, targetPath)

\* await scanPathForSecrets(targetPath) of secretScanToolHandler resumes and
\* the handler returns its text
HandlerResume(i) ==
  /\ pc[i] = "done"
  /\ report[i] = <<>>
  /\ report' = [report EXCEPT ![i] = HandlerText(basePath[i], outcome[i], result[i])]
  /\ UNCHANGED <<scanVars, entropyVars, installVars>>

DoReport == \E i \in active : HandlerResume(i)

\* the inputs.path of the calls of the tool: a file, a directory, nothing
ToolFileSystems ==
  { <<N_proj, name>> :> FileNode(content, "none") :
      name \in {N_a_txt, N_env}, content \in Texts(ShortPieces) }
  \cup ConcFileSystems \cup { << >> }

InitTool ==
  /\ fs \in ToolFileSystems
  /\ \E p \in {q \in DOMAIN fs : Len(q) <= 2} \cup {Base} : InitScans({1}, p)
  /\ EntropyIdle
  /\ InstallIdle

NextTool == DoStat \/ DoWalk \/ DoScan \/ DoReport

SpecTool == InitTool /\ [][NextTool]_vars

\* ------------------------------------------------------------------------
\* secure-install: npmRegistryClient, heuristicChecks, secureInstallToolHandler
\* ------------------------------------------------------------------------
\* an HTTP answer; status 0 stands for a request that fetch rejects
HttpResponse(status, body) == [status |-> status, body |-> body]
NoBody == << >>

\* fetchPackageMetadata(packageName), given the answer of the registry
fetchPackageMetadata(packageName, response) ==
  IF packageName = ""
  THEN [threw |-> TRUE, message |-> "Package name must be a non-empty string."]
  ELSE IF response.status = 0
  THEN [threw |-> TRUE, message |-> "fetch failed"]
  ELSE IF response.status # 200
  THEN [threw |-> TRUE,
        message |-> IF response.status = 404 THEN "not found in npm registry (404)"
                    ELSE "Failed to fetch package metadata"]
  ELSE [threw |-> FALSE, value |-> response.body]

\* fetchPackageDownloads(packageName), given the answer of the downloads
\* API: a 404 answer is returned as zero downloads with an error note
fetchPackageDownloads(packageName, response) ==
  IF packageName = ""
  THEN [threw |-> TRUE, message |-> "Package name must be a non-empty string for fetching downloads."]
  ELSE IF response.status = 0
  THEN [threw |-> TRUE, message |-> "An unexpected error occurred while fetching downloads"]
  ELSE IF response.status = 404
  THEN [threw |-> FALSE, value |-> [downloads |-> 0, error |-> TRUE]]
  ELSE IF response.status # 200
  THEN [threw |-> TRUE, message |-> "An unexpected error occurred while fetching downloads"]
  ELSE [threw |-> FALSE, value |-> response.body]

DEFAULT_MAX_PACKAGE_AGE_DAYS == 30
DEFAULT_MIN_DOWNLOADS_LAST_MONTH == 50
MIN_README_LENGTH == 50

Warning(type, severity) == << [type |-> type, severity |-> severity] >>

\* each check returns <<>> for null and a sequence of one warning otherwise
checkPackageAge(metadata) ==
  IF ~ metadata.hasCreated THEN <<>>
  ELSE IF metadata.ageInDays < 0 THEN <<>>
  ELSE IF metadata.ageInDays <= DEFAULT_MAX_PACKAGE_AGE_DAYS THEN Warning("PackageAge", "Medium")
  ELSE <<>>

checkDownloadVolume(packageName, downloadData) ==
  IF downloadData.downloads < DEFAULT_MIN_DOWNLOADS_LAST_MONTH
  THEN Warning("DownloadCount", "Medium")
  ELSE <<>>

checkReadmePresence(metadata) ==
  IF ~ metadata.readme.defined THEN Warning("ReadmePresence", "Low")
  ELSE IF metadata.readme.trimmedLength = 0 THEN Warning("ReadmePresence", "Low")
  ELSE IF metadata.readme.placeholder THEN Warning("ReadmePresence", "Low")
  ELSE IF metadata.readme.trimmedLength < MIN_README_LENGTH THEN Warning("ReadmePresence", "Low")
  ELSE <<>>

\* licenseInfo: the license of the latest version, the top-level one when
\* that is undefined
LicenseInfo(metadata) ==
  IF metadata.latestLicense = "undefined" /\ metadata.license # "undefined"
  THEN metadata.license
  ELSE metadata.latestLicense

checkLicensePresence(metadata) ==
  IF LicenseInfo(metadata) \in {"null", "undefined", "empty string", "object without type", "number"}
  THEN Warning("LicensePresence", "Low")
  ELSE <<>>

checkRepositoryPresence(metadata) ==
  IF /\ metadata.repository \notin {"http string", "object with http url"}
     /\ metadata.homepage # "http string"
  THEN Warning("RepositoryPresence", "Low")
  ELSE <<>>

\* the five checks in the order of the array, null results filtered out
RunChecks(metadata, packageName, downloadData) ==
  checkPackageAge(metadata)
  \o checkDownloadVolume(packageName, downloadData)
  \o checkReadmePresence(metadata)
  \o checkLicensePresence(metadata)
  \o checkRepositoryPresence(metadata)

WarningLines(warnings) == [k \in 1..Len(warnings) |-> warnings[k].type]

\* formatWarnings: the report of the warnings and how to confirm
formatWarnings(warnings, packageName) ==
  IF Len(warnings) = 0 THEN <<"passed all security checks">>
  ELSE <<"Security Warnings">> \o WarningLines(warnings)
       \o <<"To proceed call this tool again with the parameter yes: true">>

\* a variant that installs whatever the checks said
ShouldInstall_Always(warnings, yes) == TRUE

\* warnings.length === 0, else if (yes)
ShouldInstall(warnings, yes) == Len(warnings) = 0 \/ yes = "true"

\* outputText before the installation attempt
InstallPreamble(warnings) ==
  IF Len(warnings) = 0 THEN <<"passed all security checks">>
  ELSE <<"proceeding with installation as requested (yes: true)", "Original Warnings:">>
       \o WarningLines(warnings)

\* what installPackage adds to outputText: its message, or the caught error
InstallMessage(exit) ==
  IF exit = "close 0" THEN <<"Successfully installed">>
  ELSE IF exit = "error" THEN <<"Error during installation", "Failed to start npm install process">>
  ELSE <<"Error during installation", "npm install failed with code">>

Event(call, status, threw) == [call |-> call, status |-> status, threw |-> threw]

\* the catch block of secureInstallToolHandler
InstallCatch(message) ==
  /\ siOutput' = <<"Error processing package", message>>
  /\ siReturn' = "returned"
  /\ siPc' = "done"

\* await fetchPackageMetadata(packageName) settles
MetadataSettles(response, r) ==
  /\ siTrace' = Append(siTrace, Event("fetchPackageMetadata",
                                      IF siInputs.packageName = "" THEN 0 ELSE response.status,
                                      r.threw))
  /\ IF r.threw
     THEN InstallCatch(r.message) /\ UNCHANGED <<siMetadata, siWarnings>>
     ELSE /\ siMetadata' = r.value
          /\ siPc' = "downloads"
          /\ UNCHANGED <<siWarnings, siOutput, siReturn>>

\* the checks have run: install, or report the warnings
AfterChecks(warnings, fetched) ==
  /\ siWarnings' = warnings
  /\ IF ShouldInstall(warnings, siInputs.yes)
     THEN /\ siTrace' = siTrace \o <<fetched, Event("checks", 0, FALSE), Event("npm install", 0, FALSE)>>
          /\ siOutput' = InstallPreamble(warnings)
          /\ siPc' = "install"
          /\ UNCHANGED siReturn
     ELSE /\ siTrace' = siTrace \o <<fetched, Event("checks", 0, FALSE)>>
          /\ siOutput' = formatWarnings(warnings, siInputs.packageName)
          /\ siReturn' = "returned"
          /\ siPc' = "done"

\* await fetchPackageDownloads(packageName) settles
DownloadsSettle(response, r) ==
  IF r.threw
  THEN /\ siTrace' = Append(siTrace, Event("fetchPackageDownloads", response.status, TRUE))
       /\ InstallCatch(r.message)
       /\ UNCHANGED siWarnings
  ELSE AfterChecks(RunChecks(siMetadata, siInputs.packageName, r.value),
                   Event("fetchPackageDownloads", response.status, FALSE))

\* the package documents and download counts the registry can answer with
Metadatas ==
  [ hasCreated : {TRUE}, ageInDays : {-1, 30, 31},
    readme : {[defined |-> FALSE, trimmedLength |-> 0, placeholder |-> FALSE],
              [defined |-> TRUE, trimmedLength |-> 0, placeholder |-> FALSE],
              [defined |-> TRUE, trimmedLength |-> 60, placeholder |-> TRUE],
              [defined |-> TRUE, trimmedLength |-> 49, placeholder |-> FALSE],
              [defined |-> TRUE, trimmedLength |-> 50, placeholder |-> FALSE]},
    latestLicense : {"undefined", "null", "string"},
    license : {"undefined", "string", "empty string", "object without type"},
    repository : {"undefined", "git string", "http string"},
    homepage : {"undefined", "http string"} ]
  \cup
  [ hasCreated : {FALSE}, ageInDays : {0},
    readme : {[defined |-> TRUE, trimmedLength |-> 50, placeholder |-> FALSE]},
    latestLicense : {"undefined"},
    license : {"string", "number"},
    repository : {"object with http url", "undefined"},
    homepage : {"undefined"} ]

MetadataResponses ==
  {HttpResponse(st, NoBody) : st \in {0, 404, 500}}
  \cup {HttpResponse(200, m) : m \in Metadatas}

DownloadResponses ==
  {HttpResponse(st, NoBody) : st \in {0, 404, 500}}
  \cup {HttpResponse(200, [downloads |-> n, error |-> FALSE]) : n \in {0, 49, 50}}

InstallInputs == [packageName : {"", "left-pad"}, yes : {"true", "false", "undefined"}]

InitInstall ==
  /\ ScanIdle
  /\ EntropyIdle
  /\ siPc = "metadata"
  /\ siInputs \in InstallInputs
  /\ siMetadata = << >> /\ siWarnings = <<>>
  /\ siOutput = <<>> /\ siReturn = "pending" /\ siTrace = <<>>

MetadataResume ==
  /\ siPc = "metadata"
  /\ \E response \in MetadataResponses :
       MetadataSettles(response, fetchPackageMetadata(siInputs.packageName, response))
  /\ UNCHANGED <<siInputs, scanVars, report, entropyVars>>

DownloadsResume ==
  /\ siPc = "downloads"
  /\ \E response \in DownloadResponses :
       DownloadsSettle(response, fetchPackageDownloads(siInputs.packageName, response))
  /\ UNCHANGED <<siInputs, siMetadata, scanVars, report, entropyVars>>

\* await installPackage(packageName) settles: the child closed with code 0
\* or another code, or could not be spawned
InstallResume ==
  /\ siPc = "install"
  /\ \E exit \in {"close 0", "close 1", "error"} :
       siOutput' = siOutput \o InstallMessage(exit)
  /\ siReturn' = "returned"
  /\ siPc' = "done"
  /\ UNCHANGED <<siInputs, siMetadata, siWarnings, siTrace, scanVars, report, entropyVars>>

NextInstall == MetadataResume \/ DownloadsResume \/ InstallResume

SpecInstall == InitInstall /\ [][NextInstall]_vars

\* ------------------------------------------------------------------------
\* Scans of trees with cycles of symbolic links, every step eventually taken
\* ------------------------------------------------------------------------
N_loop == <<"l", "o", "o", "p">>
N_link == <<"l", "i", "n", "k">>

\* Tree with the link <dn>/<en>/loop added, which points up levels
\* directories above the directory it is in, and beside proj the link to it
LoopTree(order, dn, en, up, ea, ec) ==
  (<<N_proj, dn, en>> :> DirNode("dir", IF order = 1 THEN <<N_loop, N_f_pem>>
                                                     ELSE <<N_f_pem, N_loop>>, "none"))
  @@ (<<N_proj, dn, en, N_loop>> :> LinkNode(SubSeq(<<N_proj, dn, en>>, 1, 3 - up)))
  @@ (<<N_link>> :> LinkNode(Base))
  @@ Tree(order, dn, "dir", "none", en, "none", ea, "none", ec, "none")

\* the link points to the directory it is in, to its parent or to the base
LoopTrees ==
  { LoopTree(order, dn, en, up, ea, ec) :
      order \in 1..2, dn \in {N_src, N_x_git}, en \in {N_lib, S_git}, up \in 0..2,
      ea \in {"none", "EACCES"}, ec \in {"none", "ENOENT"} }

InitLive ==
  /\ fs \in LoopTrees
  /\ \E p \in {Base, <<N_link>>, <<N_link, N_src>>} : InitScans({1}, p)
  /\ EntropyIdle
  /\ InstallIdle

\* every scan of the process has returned
AllReturned == \A i \in active : pc[i] = "done"

\* a resumed await is a callback of the event loop, which runs every callback
\* that is ready: weak fairness of Next.  WF_vars(Next) is
\* []<>(~ ENABLED <<Next>>_vars) \/ []<><<Next>>_vars, and a step of Next is
\* possible exactly while some scan has not returned
Fairness == []<>AllReturned \/ []<><<Next>>_vars

SpecLive == InitLive /\ [][Next]_vars /\ Fairness

\* ------------------------------------------------------------------------
\* Properties
\* ------------------------------------------------------------------------
HighEntropy == "High Entropy String"
LocalEnvSecret == "Local Environment Secret"
RuleTypes == {secretPatterns[r].type : r \in 1..Len(secretPatterns)}

Done(i) == pc[i] = "done"

\* the lines of a readable file of the filesystem
LinesOf(filePath) == SplitLines(fs[filePath].content)

\* value is a candidate of the entropy pass that passes both thresholds
Qualifies(value) ==
  /\ Len(value) >= 20
  /\ calculateShannonEntropy(value) >= 4 * LOG2_SCALE

\* C1: within one scanned file, no "High Entropy String" finding has the
\* same (line, value) pair as a pattern-rule finding of that file.
C1_NoEntropyDuplicate ==
  \A i \in active :
    \A a, b \in 1..Len(allFindings[i]) :
      LET f == allFindings[i][a]
          g == allFindings[i][b]
      IN ~ (/\ f.type = HighEntropy /\ g.type # HighEntropy
            /\ f.file = g.file /\ f.line = g.line /\ f.value = g.value)

\* a finished scan reported an AWS secret whose text, a whole run of the
\* entropy alphabet, passes the entropy thresholds
C1_Witness ==
  \E i \in active :
    /\ Done(i)
    /\ \E k \in 1..Len(result[i]) :
         /\ result[i][k].type = "AWS Secret Access Key"
         /\ Qualifies(result[i][k].value)

\* C2: every finding of a file treated as an environment file (config.env
\* for one) has type "Local Environment Secret" and severity "Info", and
\* none is a "High Entropy String".
C2_EnvFileFindings ==
  \A i \in active :
    \A k \in 1..Len(allFindings[i]) :
      LET f == allFindings[i][k]
          name == Basename(f.file)
      IN (name = N_config_env \/ name = N_env \/ name = N_env_local)
         => /\ f.type = LocalEnvSecret
            /\ f.severity = "Info"
            /\ f.type # HighEntropy

\* a finished scan of config.env has findings, and a line of the file holds
\* a run that the entropy pass would report
C2_Witness ==
  \E i \in active :
    /\ Done(i)
    /\ Basename(basePath[i]) = N_config_env
    /\ Len(result[i]) > 0
    /\ \E l \in 1..Len(LinesOf(basePath[i])) :
         LET m == RegExpExec(ENTROPY_CANDIDATE_REGEX, LinesOf(basePath[i])[l], 0)
         IN /\ m.found /\ Qualifies(m.value)
            /\ \A k \in 1..Len(result[i]) : result[i][k].value # m.value

\* the basename is exactly .env or .env.<suffix>
C3_SpecEnvName(name) ==
  \/ name = <<".", "e", "n", "v">>
  \/ Len(name) > 5 /\ SubSeq(name, 1, 5) = <<".", "e", "n", "v", ".">>

\* the basename holds .env followed by the end of the name or by a dot
C3_CodeEnvName(name) ==
  \E s \in 1..(Len(name) - 3) :
    /\ SubSeq(name, s, s + 3) = <<".", "e", "n", "v">>
    /\ (s + 3 = Len(name) \/ name[s + 4] = ".")

AllLocalEnv(fnds) ==
  \A k \in 1..Len(fnds) : fnds[k].type = LocalEnvSecret /\ fnds[k].severity = "Info"

OwnTypes(fnds) ==
  \A k \in 1..Len(fnds) :
    \/ fnds[k].type = HighEntropy /\ fnds[k].severity = "Low"
    \/ \E r \in 1..Len(secretPatterns) :
         fnds[k].type = secretPatterns[r].type /\ fnds[k].severity = secretPatterns[r].severity

\* a line no rule matches whose first entropy candidate passes the thresholds
PlainCandidateLine(line) ==
  /\ \A r \in 1..Len(secretPatterns) : FirstMatch(secretPatterns[r].pattern, line, 1) = 0
  /\ LET m == RegExpExec(ENTROPY_CANDIDATE_REGEX, line, 0)
     IN m.found /\ Qualifies(m.value)

\* C3 as stated: a file is treated as an environment file if and only if
\* its basename is exactly .env or has the form .env.<suffix>.
C3_Original ==
  \A i \in active :
    (Done(i) /\ Len(result[i]) > 0)
      => (AllLocalEnv(result[i]) <=> C3_SpecEnvName(Basename(basePath[i])))

\* C3 (amended): a file is treated as an environment file if and only if its
\* basename contains .env followed by the end of the name or by a dot; any
\* other file gets the rules' own type and severity and the entropy pass.
C3_EnvFileTest ==
  \A i \in active :
    (Done(i) /\ Stat(fs, basePath[i]).err = "none" /\ fs[basePath[i]].kind = "file"
             /\ fs[basePath[i]].err = "none")
      => IF C3_CodeEnvName(Basename(basePath[i]))
         THEN AllLocalEnv(result[i])
         ELSE /\ OwnTypes(result[i])
              /\ \A l \in 1..Len(LinesOf(basePath[i])) :
                   PlainCandidateLine(LinesOf(basePath[i])[l])
                     => \E k \in 1..Len(result[i]) :
                          result[i][k].type = HighEntropy /\ result[i][k].line = l

\* a finished scan of config.env, which is not named .env or .env.<suffix>,
\* has findings
C3_Witness ==
  \E i \in active :
    /\ Done(i)
    /\ Basename(basePath[i]) = N_config_env
    /\ ~ C3_SpecEnvName(Basename(basePath[i]))
    /\ Len(result[i]) > 0
    /\ AllLocalEnv(result[i])

\* the findings of fnds that are in file filePath, in order
FindingsOf(fnds, filePath) == SelectSeq(fnds, LAMBDA x : x.file = filePath)

\* what a scan of the readable file filePath reports
ExpectedOf(filePath) ==
  ScanLinesFrom(<<>>, filePath, LinesOf(filePath), 0, IsEnvFileName(Basename(filePath)))

Parent(p) == SubSeq(p, 1, Len(p) - 1)
IsPrefix(d, p) == Len(d) <= Len(p) /\ SubSeq(p, 1, Len(d)) = d

\* C4: scanPathForSecrets never throws for I/O conditions: a base path that
\* does not exist (or cannot be accessed) gives the empty sequence, and a
\* scan that met failing files or directories still returns a sequence.
C4_NeverThrows ==
  \A i \in active :
    /\ outcome[i] # "threw"
    /\ Done(i) => outcome[i] = "returned"
    /\ (Done(i) /\ Stat(fs, basePath[i]).err # "none") => result[i] = <<>>

\* a finished scan of a directory met a file that cannot be read and a
\* directory that cannot be listed, and returned findings all the same
C4_Witness ==
  \E i \in active :
    /\ Done(i) /\ outcome[i] = "returned" /\ Len(result[i]) > 0
    /\ \E k \in 1..Len(filesToScan[i]) : ReadFile(fs, filesToScan[i][k]).err # "none"
    /\ \E k \in 1..Len(log) : log[k].code = "EACCES" /\ fs[log[k].path].kind = "dir"

\* the directory p is one the traversal from base lists
RECURSIVE Reached(_, _)
Reached(base, p) ==
  IF p = base THEN TRUE
  ELSE /\ Len(p) > Len(base)
       /\ Parent(p) \in DOMAIN fs
       /\ Reached(base, Parent(p))
       /\ Readdir(fs, Parent(p)).err = "none"
       /\ \E k \in 1..Len(fs[Parent(p)].entries) : fs[Parent(p)].entries[k] = p[Len(p)]
       /\ fs[p].kind = "dir"
       /\ ~ IgnoredByPattern(p)
       /\ ~ SimpleIgnore(p[Len(p)])

\* C5: a file whose read fails contributes no findings and every other
\* enumerated file contributes exactly its own findings; a subdirectory whose
\* listing fails contributes no files and its sibling files are still scanned.
C5_LocalFailures ==
  \A i \in active :
    Done(i) =>
      /\ \A k \in 1..Len(filesToScan[i]) :
           LET f == filesToScan[i][k]
           IN IF ReadFile(fs, f).err # "none"
              THEN FindingsOf(result[i], f) = <<>>
              ELSE FindingsOf(result[i], f) = ExpectedOf(f)
      /\ \A d \in DOMAIN fs :
           (/\ d # basePath[i] /\ Reached(basePath[i], d) /\ Readdir(fs, d).err # "none")
             => /\ \A k \in 1..Len(filesToScan[i]) : ~ IsPrefix(d, filesToScan[i][k])
                /\ \A k \in 1..Len(fs[Parent(d)].entries) :
                     LET sib == Append(Parent(d), fs[Parent(d)].entries[k])
                     IN (fs[sib].kind = "file" /\ ~ IgnoredByPattern(sib))
                          => \E j \in 1..Len(filesToScan[i]) : filesToScan[i][j] = sib

\* a finished scan met a file with secrets that cannot be read and a
\* subdirectory that cannot be listed, followed in the listing by a file that
\* contributed findings
C5_Witness ==
  \E i \in active :
    /\ Done(i)
    /\ \E k \in 1..Len(filesToScan[i]) :
         /\ ReadFile(fs, filesToScan[i][k]).err # "none"
         /\ ExpectedOf(filesToScan[i][k]) # <<>>
         /\ k < Len(filesToScan[i])
         /\ FindingsOf(result[i], filesToScan[i][k + 1]) # <<>>
    /\ \E d \in DOMAIN fs :
         /\ d # basePath[i] /\ Reached(basePath[i], d) /\ Readdir(fs, d).err # "none"
         /\ \E a, b \in 1..Len(fs[Parent(d)].entries) :
              /\ a < b
              /\ fs[Parent(d)].entries[a] = d[Len(d)]
              /\ FindingsOf(result[i], Append(Parent(d), fs[Parent(d)].entries[b])) # <<>>

\* the path has a directory named node_modules or .git below base
InIgnoredDir(base, filePath) ==
  \E j \in (Len(base) + 1)..(Len(filePath) - 1) :
    filePath[j] = S_node_modules \/ filePath[j] = S_git

\* C6: no finding of a scan of a directory is in a file inside a
\* subdirectory named node_modules or .git, at any depth below the base.
C6_IgnoredDirs ==
  \A i \in active :
    \A k \in 1..Len(allFindings[i]) :
      ~ InIgnoredDir(basePath[i], allFindings[i][k].file)

\* a finished scan returned findings although a listable node_modules two
\* levels below the base holds a readable file with secrets
C6_Witness ==
  \E i \in active :
    /\ Done(i) /\ Len(result[i]) > 0
    /\ \E p \in DOMAIN fs :
         /\ Len(p) = Len(basePath[i]) + 3
         /\ p[Len(p) - 1] = S_node_modules
         /\ fs[Parent(p)].kind = "dir" /\ fs[Parent(p)].err = "none"
         /\ Reached(basePath[i], Parent(Parent(p)))
         /\ fs[p].kind = "file" /\ fs[p].err = "none"
         /\ ExpectedOf(p) # <<>>

\* the position of filePath in the enumeration, 0 if it is not in it
IndexIn(files, filePath) ==
  IF \E k \in 1..Len(files) : files[k] = filePath
  THEN CHOOSE k \in 1..Len(files) : files[k] = filePath
  ELSE 0

\* C8: the returned sequence is the concatenation of the per-file finding
\* lists in file-enumeration order: findings of a file enumerated earlier
\* precede those of a file enumerated later, those of one file are contiguous.
C8_FileOrder ==
  \A i \in active :
    Done(i) =>
      /\ \A a, b \in 1..Len(filesToScan[i]) :
           filesToScan[i][a] = filesToScan[i][b] => a = b
      /\ \A a \in 1..Len(result[i]) : IndexIn(filesToScan[i], result[i][a].file) > 0
      /\ \A a, b \in 1..Len(result[i]) :
           a < b => IndexIn(filesToScan[i], result[i][a].file)
                      <= IndexIn(filesToScan[i], result[i][b].file)

\* a finished scan returned findings of at least three files
C8_Witness ==
  \E i \in active :
    /\ Done(i)
    /\ Cardinality({result[i][k].file : k \in 1..Len(result[i])}) >= 3
    /\ \E k \in 1..Len(result[i]) - 1 : result[i][k].file = result[i][k + 1].file

\* the elements of a set of numbers in increasing order
RECURSIVE Ascending(_)
Ascending(S) ==
  IF S = {} THEN <<>>
  ELSE LET lo == CHOOSE x \in S : \A y \in S : x <= y
       IN <<lo>> \o Ascending(S \ {lo})

\* every position of a line where the pattern matches, overlapping or not
Occurrences(pattern, line) ==
  {s \in 1..Len(line) : MatchLen(pattern, line, s) > 0}

\* the occurrences a leftmost-first search without overlap keeps: the first
\* one, then each time the first one that starts after the end of the last
RECURSIVE Leftmost(_, _, _)
Leftmost(pattern, line, occ) ==
  IF occ = {} THEN {}
  ELSE LET lo == CHOOSE x \in occ : \A y \in occ : x <= y
       IN {lo} \cup Leftmost(pattern, line,
                             {t \in occ : t >= lo + MatchLen(pattern, line, lo)})

OccurrenceValues(pattern, line) ==
  LET starts == Ascending(Leftmost(pattern, line, Occurrences(pattern, line)))
  IN [k \in 1..Len(starts) |->
        SubSeq(line, starts[k], starts[k] + MatchLen(pattern, line, starts[k]) - 1)]

RECURSIVE RuleValuesFrom(_, _, _)
RuleValuesFrom(r, line, isEnv) ==
  IF r > Len(secretPatterns) THEN <<>>
  ELSE LET vals == OccurrenceValues(secretPatterns[r].pattern, line)
       IN [k \in 1..Len(vals) |->
             <<IF isEnv THEN LocalEnvSecret ELSE secretPatterns[r].type, vals[k]>>]
          \o RuleValuesFrom(r + 1, line, isEnv)

\* the pattern-rule findings of line number l, as <<type, value>> pairs
RuleFindingsOn(fnds, l) ==
  LET sel == SelectSeq(fnds, LAMBDA x : x.line = l /\ x.type # HighEntropy)
  IN [k \in 1..Len(sel) |-> <<sel[k].type, sel[k].value>>]

\* the values of the "High Entropy String" findings of line number l
EntropyValuesOn(fnds, l) ==
  LET sel == SelectSeq(fnds, LAMBDA x : x.line = l /\ x.type = HighEntropy)
  IN [k \in 1..Len(sel) |-> sel[k].value]

\* a finished scan of a readable file given as the base path
ScannedFile(i) ==
  /\ Done(i)
  /\ basePath[i] \in DOMAIN fs
  /\ fs[basePath[i]].kind = "file" /\ fs[basePath[i]].err = "none"

\* C7: for every line and every rule there is exactly one finding per
\* occurrence of the rule's pattern found by a leftmost-first search without
\* overlap: none is skipped, none is reported twice.
C7_OnePerOccurrence ==
  \A i \in active :
    ScannedFile(i) =>
      \A l \in 1..Len(LinesOf(basePath[i])) :
        RuleFindingsOn(result[i], l)
          = RuleValuesFrom(1, LinesOf(basePath[i])[l], C3_CodeEnvName(Basename(basePath[i])))

\* a finished scan of a file with a line where a rule has two occurrences
\* that are kept and one that overlaps a kept one
C7_Witness ==
  \E i \in active :
    /\ ScannedFile(i)
    /\ \E l \in 1..Len(LinesOf(basePath[i])), r \in 1..Len(secretPatterns) :
         LET line == LinesOf(basePath[i])[l]
             occ == Occurrences(secretPatterns[r].pattern, line)
             kept == Leftmost(secretPatterns[r].pattern, line, occ)
         IN /\ Cardinality(kept) >= 2
            /\ Cardinality(occ) > Cardinality(kept)
            /\ Len(RuleFindingsOn(result[i], l)) >= 2

\* the place of a finding's type in the order rule table, then entropy pass
Rank(type) ==
  CASE type = "AWS Access Key ID" -> 1
    [] type = "AWS Secret Access Key" -> 2
    [] type = "Generic API Key" -> 3
    [] type = HighEntropy -> 4
    [] OTHER -> 0

\* C9 as stated: within one file, all pattern-rule findings, grouped in
\* rule-table order, precede all "High Entropy String" findings of the file.
C9_Original ==
  \A i \in active :
    \A a, b \in 1..Len(allFindings[i]) :
      (a < b /\ allFindings[i][a].file = allFindings[i][b].file)
        => Rank(allFindings[i][a].type) <= Rank(allFindings[i][b].type)

\* C9 (amended): within one file the findings are in line order; within one
\* line the pattern-rule findings, grouped in rule-table order, precede the
\* "High Entropy String" findings of that line.
C9_LineThenRuleOrder ==
  \A i \in active :
    \A a, b \in 1..Len(allFindings[i]) :
      (a < b /\ allFindings[i][a].file = allFindings[i][b].file)
        => /\ allFindings[i][a].line <= allFindings[i][b].line
           /\ allFindings[i][a].line = allFindings[i][b].line
                => Rank(allFindings[i][a].type) <= Rank(allFindings[i][b].type)

\* a finished scan reported a "High Entropy String" of one line before a
\* pattern-rule finding of a later line
C9_Witness ==
  \E i \in active :
    /\ Done(i)
    /\ \E a, b \in 1..Len(result[i]) :
         /\ a < b
         /\ result[i][a].type = HighEntropy
         /\ Rank(result[i][b].type) \in 1..3
         /\ result[i][a].line < result[i][b].line

\* the starts of the maximal runs of at least 20 characters of [A-Za-z0-9/+=]
RunStarts(line) ==
  {s \in 1..Len(line) :
     /\ line[s] \in Base64Class
     /\ At(line, s - 1) \notin Base64Class
     /\ RunLen(line, s, Base64Class) >= 20}

\* the maximal runs of a line, in the order they occur
Runs(line) ==
  LET starts == Ascending(RunStarts(line))
  IN [k \in 1..Len(starts) |->
        SubSeq(line, starts[k], starts[k] + RunLen(line, starts[k], Base64Class) - 1)]

\* value is the value of a pattern-rule finding of line number l
Claimed(fnds, l, value) ==
  \E k \in 1..Len(fnds) :
    fnds[k].line = l /\ fnds[k].type # HighEntropy /\ fnds[k].value = value

\* the subsequence of the elements of s whose index is in idx
KeepAt(s, idx) ==
  LET asc == Ascending(idx)
  IN [k \in 1..Len(asc) |-> s[asc[k]]]

AllLow(fnds) ==
  \A k \in 1..Len(fnds) : fnds[k].type = HighEntropy => fnds[k].severity = "Low"

\* C10 as stated: in a non-environment file every occurrence of a maximal
\* run of length >= 20 that no pattern-rule finding of the line claims and
\* whose entropy is >= 4.0 yields a "High Entropy String" finding of severity
\* "Low", and no other run yields one.
C10_Original ==
  \A i \in active :
    (ScannedFile(i) /\ ~ C3_CodeEnvName(Basename(basePath[i])))
      => /\ AllLow(result[i])
         /\ \A l \in 1..Len(LinesOf(basePath[i])) :
              LET runs == Runs(LinesOf(basePath[i])[l])
                  keep == {k \in 1..Len(runs) :
                             Qualifies(runs[k]) /\ ~ Claimed(result[i], l, runs[k])}
              IN EntropyValuesOn(result[i], l) = KeepAt(runs, keep)

\* C10 (amended): ... every maximal run of length >= 20 whose entropy is
\* >= 4.0 and whose text is the value neither of a pattern-rule finding of
\* the line nor of an earlier run of the line yields a finding: a run that
\* occurs several times on a line is reported once.
C10_EntropyFindings ==
  \A i \in active :
    (ScannedFile(i) /\ ~ C3_CodeEnvName(Basename(basePath[i])))
      => /\ AllLow(result[i])
         /\ \A l \in 1..Len(LinesOf(basePath[i])) :
              LET runs == Runs(LinesOf(basePath[i])[l])
                  keep == {k \in 1..Len(runs) :
                             /\ Qualifies(runs[k])
                             /\ ~ Claimed(result[i], l, runs[k])
                             /\ \A j \in 1..(k - 1) : runs[j] # runs[k]}
              IN EntropyValuesOn(result[i], l) = KeepAt(runs, keep)

\* a finished scan of a file with a line where the same run, which passes
\* both thresholds and is claimed by no rule, occurs twice and is reported once
C10_Witness ==
  \E i \in active :
    /\ ScannedFile(i) /\ ~ C3_CodeEnvName(Basename(basePath[i]))
    /\ \E l \in 1..Len(LinesOf(basePath[i])) :
         LET runs == Runs(LinesOf(basePath[i])[l])
         IN /\ Len(runs) = 2 /\ runs[1] = runs[2] /\ Qualifies(runs[1])
            /\ ~ Claimed(result[i], l, runs[1])
            /\ EntropyValuesOn(result[i], l) = <<runs[1]>>

AwsSecret == "AWS Secret Access Key"

\* the values of the findings of one type of line number l, in order
TypeValuesOn(fnds, l, type) ==
  LET sel == SelectSeq(fnds, LAMBDA x : x.line = l /\ x.type = type)
  IN [k \in 1..Len(sel) |-> sel[k].value]

\* C11: in a file that is not an environment file the "AWS Secret Access
\* Key" findings of a line are exactly its maximal runs of [A-Za-z0-9/+=]
\* of length 40, bounded by another character or a line edge; 40 characters
\* inside a longer run produce no such finding.
C11_ExactRunOf40 ==
  \A i \in active :
    (ScannedFile(i) /\ ~ C3_CodeEnvName(Basename(basePath[i])))
      => \A l \in 1..Len(LinesOf(basePath[i])) :
           LET runs == Runs(LinesOf(basePath[i])[l])
           IN TypeValuesOn(result[i], l, AwsSecret)
                = KeepAt(runs, {k \in 1..Len(runs) : Len(runs[k]) = 40})

\* a finished scan of a file with a line whose run of more than 40
\* characters gave no "AWS Secret Access Key" finding and one "High Entropy
\* String" finding
C11_Witness ==
  \E i \in active :
    /\ ScannedFile(i) /\ ~ C3_CodeEnvName(Basename(basePath[i]))
    /\ \E l \in 1..Len(LinesOf(basePath[i])) :
         LET runs == Runs(LinesOf(basePath[i])[l])
         IN /\ Len(runs) = 1 /\ Len(runs[1]) > 40
            /\ TypeValuesOn(result[i], l, AwsSecret) = <<>>
            /\ EntropyValuesOn(result[i], l) = <<runs[1]>>

GenericApiKey == "Generic API Key"

\* the tails the claim describes: optional white space, `:` or `=`, an
\* optional quote, 16 or more characters of [A-Za-z0-9_-]
C12_ClaimedTails ==
  {ws \o sep \o q \o val \o q :
     ws \in K_spaces, sep \in {<<":">>, <<"=">>},
     q \in K_quotes, val \in {v \in K_values : Len(v) >= 16}}

\* the tails the pattern accepts: white space is also allowed after the
\* separator
C12_AcceptedTails ==
  {ws \o sep \o ws2 \o q \o val \o q :
     ws \in K_spaces, sep \in {<<":">>, <<"=">>}, ws2 \in K_spaces,
     q \in K_quotes, val \in {v \in K_values : Len(v) >= 16}}

\* the key tokens api_key and apikey in the letter cases tried
C12_AcceptedTokens == {a \o j \o k : a \in K_api, j \in {<<>>, <<"_">>}, k \in K_key}

\* the line is tok followed by one of tails
C12_LineIs(line, toks, tails) ==
  \E tok \in toks :
    IsPrefix(tok, line) /\ SubSeq(line, Len(tok) + 1, Len(line)) \in tails

\* C12 as stated: a line that is one of the key tokens api_key, apikey or
\* api-key, in any letter case, followed by optional white space, `:` or
\* `=`, an optional quote and 16 or more characters of [A-Za-z0-9_-] gives a
\* "Generic API Key" finding of severity "Medium".
C12_Original ==
  \A i \in active :
    (ScannedFile(i) /\ Len(LinesOf(basePath[i])) = 1
       /\ C12_LineIs(LinesOf(basePath[i])[1], KeyTokens, C12_ClaimedTails))
      => \E k \in 1..Len(result[i]) :
           result[i][k].type = GenericApiKey /\ result[i][k].severity = "Medium"

\* C12 (amended): the key tokens are api_key and apikey, in any letter
\* case; such a line gives exactly one "Generic API Key" finding, of
\* severity "Medium", whose value is the whole line.  A line whose token is
\* api-key, whose separator is neither `:` nor `=`, or whose value has fewer
\* than 16 characters gives no "Generic API Key" finding.
C12_GenericApiKey ==
  \A i \in active :
    (ScannedFile(i) /\ Len(LinesOf(basePath[i])) = 1
       /\ C12_LineIs(LinesOf(basePath[i])[1], KeyTokens, KeyTails))
      => LET sel == SelectSeq(result[i], LAMBDA x : x.type = GenericApiKey)
         IN IF C12_LineIs(LinesOf(basePath[i])[1], C12_AcceptedTokens, C12_AcceptedTails)
            THEN /\ Len(sel) = 1
                 /\ sel[1].severity = "Medium"
                 /\ sel[1].line = 1
                 /\ sel[1].value = LinesOf(basePath[i])[1]
            ELSE sel = <<>>

\* a finished scan of a line with an upper-case API_KEY token, white space
\* on both sides of the separator and a quoted value, reported as "Generic
\* API Key"
C12_Witness ==
  \E i \in active :
    /\ ScannedFile(i) /\ Len(LinesOf(basePath[i])) = 1
    /\ IsPrefix(<<"A", "P", "I", "_", "K", "E", "Y", " ", "\t">>, LinesOf(basePath[i])[1])
    /\ \E k \in 1..Len(result[i]) :
         /\ result[i][k].type = GenericApiKey
         /\ result[i][k].value = LinesOf(basePath[i])[1]
         /\ result[i][k].value[Len(result[i][k].value)] \in QuoteClass

\* C13: calculateShannonEntropy returns exactly 0 for the empty string and
\* for every non-empty string of one repeated character, whatever its length.
C13_ZeroEntropy ==
  (entropyOutput # <<>> /\ Cardinality(Range(entropyInput)) <= 1)
    => entropyOutput = <<0>>

\* the function returned 0 for a string of 100 equal characters
C13_Witness ==
  /\ entropyInput = Repeat("=", 100)
  /\ entropyOutput = <<0>>

\* C14: every finding's line is a 1-based index between 1 and the number of
\* lines of its file, and its value is a non-empty contiguous substring of
\* that line.
C14_LineAndValue ==
  \A i \in active :
    \A k \in 1..Len(allFindings[i]) :
      LET f == allFindings[i][k]
      IN /\ f.file \in DOMAIN fs
         /\ f.line \in 1..Len(LinesOf(f.file))
         /\ Len(f.value) > 0
         /\ Contains(LinesOf(f.file)[f.line], f.value)

\* a finished scan of a file of two lines reported a finding of the last
\* line whose value is a proper part of the line
C14_Witness ==
  \E i \in active :
    /\ ScannedFile(i)
    /\ Len(LinesOf(basePath[i])) = 2
    /\ \E k \in 1..Len(result[i]) :
         /\ result[i][k].line = 2
         /\ Len(result[i][k].value) < Len(LinesOf(basePath[i])[2])

\* walkDirectory run to its end with no other invocation in between
RECURSIVE C15_WalkAlone(_, _)
C15_WalkAlone(files, stk) ==
  IF Len(WalkResume(files, stk).stack) = 0 THEN WalkResume(files, stk).ret
  ELSE C15_WalkAlone(files, WalkResume(files, stk).stack)

\* the file list of a scan of base that runs alone
C15_ListAlone(files, base) ==
  IF Stat(files, base).err # "none" THEN <<>>
  ELSE IF Stat(files, base).kind = "file" THEN <<base>>
  ELSE IF Stat(files, base).kind = "dir" THEN C15_WalkAlone(files, <<NewFrame(base)>>)
  ELSE <<>>

\* the accumulator of a scan that runs alone after the first n files of list
RECURSIVE C15_FindingsAlone(_, _, _)
C15_FindingsAlone(files, list, n) ==
  IF n = 0 THEN <<>>
  ELSE ConcatFindings(C15_FindingsAlone(files, list, n - 1),
                      scanFileForSecrets(list[n], ReadFile(files, list[n])).findings)

\* C15: invocations share no state that affects results.  With two scans
\* interleaved at their awaits (stat, readdir, readFile), the file list, the
\* accumulator after every file and the returned findings of each scan are
\* those of the same scan run alone on the same filesystem, and the
\* module-level regular expression objects are at lastIndex 0 at every await.
C15_NoSharedState ==
  /\ \A p \in RegexObjects : lastIndex[p] = 0
  /\ \A i \in active :
       /\ pc[i] = "scan" =>
            /\ filesToScan[i] = C15_ListAlone(fs, basePath[i])
            /\ allFindings[i] = C15_FindingsAlone(fs, filesToScan[i], next[i])
       /\ Done(i) =>
            /\ outcome[i] = "returned"
            /\ result[i] = C15_FindingsAlone(fs, C15_ListAlone(fs, basePath[i]),
                                             Len(C15_ListAlone(fs, basePath[i])))

\* both scans of the same directory are between two files, each with
\* findings of its own, one scan ahead of the other
C15_Witness ==
  /\ active = {1, 2}
  /\ basePath[1] = basePath[2]
  /\ pc[1] = "scan" /\ pc[2] = "scan"
  /\ next[1] >= 2 /\ next[2] >= 1 /\ next[1] > next[2]
  /\ Len(allFindings[2]) > 0
  /\ Len(allFindings[1]) > Len(allFindings[2])

\* the positions of text where a block of a finding starts
C16_BlockStarts(text) == {s \in 1..Len(text) : OccursAt(L_File, text, s)}

\* block number k of text, given the block starts in increasing order
C16_Block(text, starts, k) ==
  SubSeq(text, starts[k], IF k < Len(starts) THEN starts[k + 1] - 1 ELSE Len(text))

\* the block carries the file, line, type, severity and literal value
C16_Carries(block, finding) ==
  /\ Contains(block, <<Backtick>> \o PathStr(finding.file) \o <<Backtick>>)
  /\ Contains(block, <<"L", "i", "n", "e", ":", " ">> \o NumStr(finding.line) \o <<")">>)
  /\ Contains(block, <<"T", "y", "p", "e", ":", "*", "*", " ">> \o CharsOf(finding.type))
  /\ Contains(block, <<"S", "e", "v", "e", "r", "i", "t", "y", ":", "*", "*", " ">>
                       \o CharsOf(finding.severity))
  /\ Contains(block, <<Backtick, Backtick, Backtick>> \o finding.value
                       \o <<Backtick, Backtick, Backtick>>)

C16_BlocksOf(text, starts, findings) ==
  /\ Len(starts) = Len(findings)
  /\ IsPrefix(L_Heading, text)
  /\ \A k \in 1..Len(starts) :
       /\ starts[k] > Len(L_Heading)
       /\ k <= Len(findings) => C16_Carries(C16_Block(text, starts, k), findings[k])

\* C16: the text secret-scan returns is a success message of one line when
\* the scan returned no finding; otherwise it is a heading followed by one
\* block per finding, in finding order, each block with the file, line,
\* type, severity and unredacted value of its finding.
C16_Report ==
  \A i \in active :
    (report[i] # <<>> /\ outcome[i] = "returned")
      => IF Len(result[i]) = 0
         THEN /\ report[i][1] = CheckMark
              /\ Contains(report[i], PathStr(basePath[i]))
              /\ "\n" \notin Range(report[i])
              /\ C16_BlockStarts(report[i]) = {}
         ELSE C16_BlocksOf(report[i], Ascending(C16_BlockStarts(report[i])), result[i])

\* the handler returned a text for a scan of a directory that found secrets
\* of three types in two files or more
C16_Witness ==
  \E i \in active :
    /\ report[i] # <<>>
    /\ Cardinality({result[i][k].file : k \in 1..Len(result[i])}) >= 2
    /\ Cardinality({result[i][k].type : k \in 1..Len(result[i])}) >= 3
    /\ Cardinality(C16_BlockStarts(report[i])) = Len(result[i])

\* npm install was started in the call
C17_Started == \E k \in 1..Len(siTrace) : siTrace[k].call = "npm install"

\* the order the claim asks for: metadata fetch, download-count fetch,
\* checks, npm install, with the two fetches answered by the statuses given
C17_InOrder(metaStatuses, downloadStatuses) ==
  /\ Len(siTrace) = 4
  /\ siTrace[1].call = "fetchPackageMetadata" /\ siTrace[1].status \in metaStatuses
  /\ siTrace[2].call = "fetchPackageDownloads" /\ siTrace[2].status \in downloadStatuses
  /\ siTrace[3].call = "checks"
  /\ siTrace[4].call = "npm install"

\* a fetch of the call was answered by a status outside ok, or not at all
C17_FetchFailed(ok) ==
  \E k \in 1..Len(siTrace) :
    /\ siTrace[k].call \in {"fetchPackageMetadata", "fetchPackageDownloads"}
    /\ siTrace[k].status \notin ok[siTrace[k].call]

C17_Refused(ok) ==
  \/ Len(siWarnings) > 0 /\ siInputs.yes # "true"
  \/ C17_FetchFailed(ok)

\* C17 as stated: npm install is started only after both fetches were
\* answered with success (status 200) and the checks have run, and only if
\* there is no warning or yes is true; when a warning exists and yes is not
\* true, or a fetch failed (a 404 included), no install is started and the
\* handler returns a text instead of throwing.
C17_Original ==
  siPc # "idle" =>
    /\ siReturn # "threw"
    /\ C17_Started =>
         /\ C17_InOrder({200}, {200})
         /\ Len(siWarnings) = 0 \/ siInputs.yes = "true"
    /\ (siPc = "done" /\ C17_Refused([c \in {"fetchPackageMetadata", "fetchPackageDownloads"} |-> {200}]))
         => /\ ~ C17_Started
            /\ siReturn = "returned" /\ Len(siOutput) > 0

\* C17 (amended): as stated, except that a 404 answer of the downloads API is
\* not a failed fetch: it counts as zero downloads, which gives a
\* DownloadCount warning, and the install is then started when yes is true.
\* A fetch fails when the metadata answer is not 200 or the downloads answer
\* is neither 200 nor 404.
C17_InstallGate ==
  siPc # "idle" =>
    /\ siReturn # "threw"
    /\ C17_Started =>
         /\ C17_InOrder({200}, {200, 404})
         /\ Len(siWarnings) = 0 \/ siInputs.yes = "true"
         /\ siTrace[2].status = 404
              => \E k \in 1..Len(siWarnings) : siWarnings[k].type = "DownloadCount"
    /\ (siPc = "done" /\ C17_Refused("fetchPackageMetadata" :> {200} @@ "fetchPackageDownloads" :> {200, 404}))
         => /\ ~ C17_Started
            /\ siReturn = "returned" /\ Len(siOutput) > 0
    /\ (siPc = "done" /\ ~ C17_Refused("fetchPackageMetadata" :> {200} @@ "fetchPackageDownloads" :> {200, 404}))
         => C17_Started

\* the handler returned after an install it started with yes true although
\* the downloads API answered 404 and the checks gave warnings
C17_Witness ==
  /\ siPc = "done" /\ siReturn = "returned"
  /\ C17_Started
  /\ siTrace[2].status = 404
  /\ Len(siWarnings) > 0 /\ siInputs.yes = "true"

\* directory d, at or below base, is one the claim lets the traversal list:
\* a listable real directory, and below the base neither it nor a directory
\* above it is named node_modules or .git
RECURSIVE C18_Open(_, _)
C18_Open(base, d) ==
  /\ d \in DOMAIN fs
  /\ fs[d].kind = "dir" /\ fs[d].err = "none"
  /\ IF d = base THEN TRUE
     ELSE /\ Len(d) > Len(base)
          /\ d[Len(d)] # S_node_modules /\ d[Len(d)] # S_git
          /\ \E k \in 1..Len(fs[Parent(d)].entries) : fs[Parent(d)].entries[k] = d[Len(d)]
          /\ C18_Open(base, Parent(d))

\* the regular files the claim says are enumerated
C18_Expected(base) ==
  {p \in DOMAIN fs :
     /\ fs[p].kind = "file"
     /\ Len(p) > Len(base)
     /\ C18_Open(base, Parent(p))
     /\ \E k \in 1..Len(fs[Parent(p)].entries) : fs[Parent(p)].entries[k] = p[Len(p)]}

\* C18 as stated: for a directory base path the enumerated list holds,
\* once each, every regular file reachable from the base through
\* directories none of which is named node_modules or .git, and no other.
C18_Original ==
  \A i \in active :
    (Done(i) /\ basePath[i] \in DOMAIN fs /\ fs[basePath[i]].kind = "dir")
      => /\ \A a, b \in 1..Len(filesToScan[i]) :
              filesToScan[i][a] = filesToScan[i][b] => a = b
         /\ {filesToScan[i][k] : k \in 1..Len(filesToScan[i])} = C18_Expected(basePath[i])

\* the entry d of its parent directory is a real directory, not a link
C19_RealDirectory(d) ==
  KindAt(fs, Append(Resolve(fs, Parent(d)), d[Len(d)])) = "dir"

\* the while loop over pattern.exec(line) from lastIndex li, where exec
\* returned match: every match is non-empty and moves lastIndex forward
RECURSIVE C19_AdvancesOn(_, _, _, _)
C19_AdvancesOn(pattern, line, li, match) ==
  \/ ~ match.found
  \/ /\ Len(match.value) > 0
     /\ match.lastIndex > li
     /\ match.lastIndex <= Len(line)
     /\ C19_AdvancesOn(pattern, line, match.lastIndex,
                       RegExpExec(pattern, line, match.lastIndex))

C19_LoopsEnd(content) ==
  \A l \in 1..Len(SplitLines(content)) :
    \A p \in RegexObjects :
      C19_AdvancesOn(p, SplitLines(content)[l], 0, RegExpExec(p, SplitLines(content)[l], 0))

C19_Safe ==
  /\ \A i \in active :
       /\ \A k \in 2..Len(readdirs[i]) : C19_RealDirectory(readdirs[i][k])
       /\ \A a, b \in 1..Len(readdirs[i]) :
            Resolve(fs, readdirs[i][a]) = Resolve(fs, readdirs[i][b]) => a = b
  /\ \A f \in DOMAIN fs : fs[f].kind = "file" => C19_LoopsEnd(fs[f].content)

\* C19: every scan runs to completion on a finite filesystem.  The traversal
\* lists only entries that are real directories, never a symbolic link, and
\* lists no directory twice, also when links form a cycle; every match of a
\* per-line loop is non-empty and moves the search position forward; and
\* every scan eventually returns.
C19_Terminates == []C19_Safe /\ <>AllReturned

\* a scan through a link to the base has returned after it listed three
\* directories and met, before the last file, a link back to the base
C19_Witness ==
  \E i \in active :
    /\ Done(i) /\ basePath[i] = <<N_link>>
    /\ Len(readdirs[i]) = 3
    /\ \E k \in 1..Len(filesToScan[i]) : filesToScan[i][k][Len(filesToScan[i][k])] = N_f_pem
    /\ \E d \in DOMAIN fs :
         /\ IsLink(fs, d) /\ d[Len(d)] = N_loop /\ fs[d].target = Base
         /\ fs[Parent(d)].entries[1] = N_loop

\* the spans <<first, last>> of the matches that the while loop over
\* pattern.exec(line) finds; match is what exec returned for the iteration
RECURSIVE C20_SpansOn(_, _, _)
C20_SpansOn(pattern, line, match) ==
  IF ~ match.found THEN {}
  ELSE {<<match.index + 1, match.lastIndex>>}
         \cup C20_SpansOn(pattern, line, RegExpExec(pattern, line, match.lastIndex))

\* the spans of the pattern-rule matches of a line
C20_RuleSpans(line) ==
  UNION {C20_SpansOn(secretPatterns[r].pattern, line,
                     RegExpExec(secretPatterns[r].pattern, line, 0)) :
           r \in 1..Len(secretPatterns)}

\* the maximal run that starts at s shares a character with a rule match
C20_Overlaps(line, s) ==
  \E span \in C20_RuleSpans(line) :
    /\ span[1] <= s + RunLen(line, s, Base64Class) - 1
    /\ s <= span[2]

C20_Run(line, s) == SubSeq(line, s, s + RunLen(line, s, Base64Class) - 1)

C20_Reported(fnds, l, value) ==
  \E k \in 1..Len(fnds) :
    fnds[k].line = l /\ fnds[k].type = HighEntropy /\ fnds[k].value = value

C20_CodeFile(i) == ScannedFile(i) /\ ~ C3_CodeEnvName(Basename(basePath[i]))

\* C20 as stated: in any file, no "High Entropy String" finding is emitted
\* for a candidate whose text overlaps the span of a pattern-rule match on
\* the same line.
C20_Original ==
  \A i \in active :
    ScannedFile(i) =>
      \A l \in 1..Len(LinesOf(basePath[i])) :
        \A s \in RunStarts(LinesOf(basePath[i])[l]) :
          C20_Overlaps(LinesOf(basePath[i])[l], s)
            => ~ C20_Reported(result[i], l, C20_Run(LinesOf(basePath[i])[l], s))

\* C20 (amended): no "High Entropy String" finding is emitted for a
\* candidate whose text is identical to the value of a pattern-rule finding
\* of the same line; a candidate that only overlaps the span of a rule match
\* and passes both thresholds is reported, so the characters of one secret
\* can be reported by a rule and by the entropy pass.
C20_IdenticalOnly ==
  \A i \in active :
    C20_CodeFile(i) =>
      \A l \in 1..Len(LinesOf(basePath[i])) :
        \A s \in RunStarts(LinesOf(basePath[i])[l]) :
          (/\ C20_Overlaps(LinesOf(basePath[i])[l], s)
           /\ Qualifies(C20_Run(LinesOf(basePath[i])[l], s)))
            => (C20_Reported(result[i], l, C20_Run(LinesOf(basePath[i])[l], s))
                  <=> ~ Claimed(result[i], l, C20_Run(LinesOf(basePath[i])[l], s)))

\* a finished scan reported, as a "High Entropy String", a run that shares
\* characters with a rule match of its line without being that match
C20_Witness ==
  \E i \in active :
    /\ C20_CodeFile(i)
    /\ \E l \in 1..Len(LinesOf(basePath[i])) :
         \E s \in RunStarts(LinesOf(basePath[i])[l]) :
           /\ C20_Overlaps(LinesOf(basePath[i])[l], s)
           /\ ~ Claimed(result[i], l, C20_Run(LinesOf(basePath[i])[l], s))
           /\ C20_Reported(result[i], l, C20_Run(LinesOf(basePath[i])[l], s))

\* the numbers of the findings of line number l with this type and value
C21_Findings(fnds, l, type, value) ==
  {k \in 1..Len(fnds) :
     fnds[k].line = l /\ fnds[k].type = type /\ fnds[k].value = value}

\* the starts of the maximal runs of exactly 40 characters of a line
C21_Runs40(line) == {s \in RunStarts(line) : RunLen(line, s, Base64Class) = 40}

\* C21: in a file that is not an environment file, every maximal run of
\* exactly 40 characters of [A-Za-z0-9/+=] on a line yields exactly one
\* "AWS Secret Access Key" finding, of severity "High", whatever its entropy,
\* and no "High Entropy String" finding.
C21_SecretNotEntropy ==
  \A i \in active :
    C20_CodeFile(i) =>
      \A l \in 1..Len(LinesOf(basePath[i])) :
        \A s \in C21_Runs40(LinesOf(basePath[i])[l]) :
          /\ Cardinality(C21_Findings(result[i], l, AwsSecret,
                                      C20_Run(LinesOf(basePath[i])[l], s)))
               = Cardinality({t \in C21_Runs40(LinesOf(basePath[i])[l]) :
                                C20_Run(LinesOf(basePath[i])[l], t)
                                  = C20_Run(LinesOf(basePath[i])[l], s)})
          /\ \A k \in C21_Findings(result[i], l, AwsSecret,
                                   C20_Run(LinesOf(basePath[i])[l], s)) :
               result[i][k].severity = "High"
          /\ C21_Findings(result[i], l, HighEntropy,
                          C20_Run(LinesOf(basePath[i])[l], s)) = {}

\* a finished scan reported, once and with severity "High", a run of 40
\* copies of one character, whose entropy is 0
C21_Witness ==
  \E i \in active :
    /\ C20_CodeFile(i)
    /\ \E l \in 1..Len(LinesOf(basePath[i])) :
         \E s \in C21_Runs40(LinesOf(basePath[i])[l]) :
           /\ calculateShannonEntropy(C20_Run(LinesOf(basePath[i])[l], s)) = 0
           /\ \E k \in 1..Len(result[i]) :
                /\ C21_Findings(result[i], l, AwsSecret,
                                C20_Run(LinesOf(basePath[i])[l], s)) = {k}
                /\ result[i][k].severity = "High"

====
